---- MODULE Spec2Model ----
(***************************************************************************)
(* Imagify (src/app.js, current revision, lines 1-789): the compression    *)
(* orchestrator as a state machine.  One action per event handler, timer   *)
(* expiry or browser callback; the asynchronous operations in flight       *)
(* (FileReader, Image decode, canvas.toBlob) are the records of `tasks`.   *)
(* A handler runs to completion; the continuation of an `await` whose      *)
(* promise is already settled runs in the same macrotask, so it belongs to *)
(* the action that settles it.                                             *)
(***************************************************************************)
EXTENDS Integers, Sequences, FiniteSets, TLC

(* ---------------------------- bounds ----------------------------------- *)

\* user events (inputs, clicks, file selections) in one behaviour
MaxEvents == 3
\* file selections among them
MaxFiles == 2
\* user events in a session with one file: the selection and settings changes
MaxSession == 4
\* user events in the behaviours checked for progress
MaxFair == 2
\* the largest natural width / height of the images the size computation is
\* checked on
MaxSide == 5
\* slider inputs in the behaviours checked for the quality an encode gets
MaxSlider == 2
\* user events in the behaviours checked for the validation of a file
MaxSelect == 2
\* user events in the behaviours of the older revision
MaxOlder == 3
\* user events in the behaviours checked for the download
MaxDownload == 3

(* ---------------------------- input domains ---------------------------- *)

\* contents a user can pick: 1 and 2 are images, 3 is not an image; sizes are
\* counted in MiB
FileContents == {1, 2, 3}
\* further images, one for each natural size of 0..MaxSide by 0..MaxSide (an
\* SVG image without intrinsic size can load with a natural size of 0)
SizeDims ==
    [k \in 1..((MaxSide + 1) * (MaxSide + 1)) |->
        <<(k - 1) \div (MaxSide + 1), (k - 1) % (MaxSide + 1)>>]
SizeContents == 4..(Len(SizeDims) + 3)
\* a MIME type "a/b" is the pair <<a, b>>
\* and an image of 11 MiB after them
BigContent == Len(SizeDims) + 4
FileType ==
    <<<<"image", "png">>, <<"image", "jpeg">>, <<"text", "plain">>>>
        \o [k \in DOMAIN SizeDims |-> <<"image", "svg+xml">>]
        \o <<<<"image", "jpeg">>>>
FileSize == <<3, 4, 3>> \o [k \in DOMAIN SizeDims |-> 3] \o <<11>>
\* naturalWidth, naturalHeight of the decoded image
FileDims == <<<<4, 2>>, <<2, 2>>, <<0, 0>>>> \o SizeDims \o <<<<4, 2>>>>
\* what handleFileSelect can be handed: no file (0), an image, a text, an
\* image above the limit
SelectContents == {0, 1, 3, BigContent}
\* values of the quality slider
Qualities == {80, 100}
\* values the slider element can report when its range is not taken for
\* granted (the page that declares it is not part of the source)
SliderValues == {0, 1, 80, 100, 101}
\* pairs of pixel buffers of the sizes in sizes: the first pixel and all the
\* others are any pixels of pixels, in either buffer
Scenes(sizes, pixels) ==
    {[width |-> d[1], height |-> d[2],
      runs |-> IF d[1] * d[2] = 1 THEN <<[n |-> 1, o |-> o1, c |-> c1]>>
               ELSE <<[n |-> 1, o |-> o1, c |-> c1],
                      [n |-> d[1] * d[2] - 1, o |-> o2, c |-> c2]>>] :
        d \in sizes, o1 \in pixels, c1 \in pixels, o2 \in pixels, c2 \in pixels}
\* the buffers calculateSSIM is checked on: below a window in one dimension
\* or in both, one window, one window and a strip, two windows
SsimSizes == {<<1, 1>>, <<7, 8>>, <<8, 7>>, <<8, 8>>, <<9, 8>>, <<16, 8>>}
SsimPixels == {<<0, 0, 0, 255>>, <<1, 1, 0, 255>>, <<1, 1, 0, 128>>, <<1, 1, 0, 0>>}
SameColour(p, q) == p[1] = q[1] /\ p[2] = q[2] /\ p[3] = q[3]
\* buffers of one colour each, the alpha of the first pixel apart
SsimScenes ==
    {d \in Scenes(SsimSizes, SsimPixels) :
        \A k \in DOMAIN d.runs : /\ SameColour(d.runs[k].o, d.runs[1].o)
                                 /\ SameColour(d.runs[k].c, d.runs[1].c)}
\* the buffers updateHeatMap is checked on: one pixel, a thumbnail, the display
HeatSizes == {<<1, 1>>, <<2, 2>>, <<400, 300>>}
HeatPixels == {<<0, 0, 0, 255>>, <<255, 255, 255, 255>>, <<100, 100, 100, 255>>,
               <<255, 0, 0, 255>>, <<0, 0, 0, 128>>}
\* the buffers calculatePSNR is checked on: one pixel, one window, a photo
PsnrSizes == {<<1, 1>>, <<8, 8>>, <<300, 200>>}
PsnrPixels == {<<0, 0, 0, 255>>, <<0, 0, 1, 255>>, <<100, 100, 100, 255>>,
               <<0, 0, 0, 128>>}
\* parsed values of the max-width / max-height inputs; 0 stands for an
\* empty (or unparsable) field, which parseInt(..) || natural replaces
MaxInputs == {0, 2}
\* the same for the images of SizeContents: negative, empty, below, at and
\* above the natural size
SizeMaxInputs == (0 - 1)..(MaxSide + 1)
\* the encoder is a function of the canvas and the quality.  Bloat[f] is the
\* lowest quality at which re-encoding image f at its natural size yields
\* more bytes than the file has (101: never)
Bloat == <<98, 101, 101>> \o [k \in DOMAIN SizeDims |-> 101] \o <<101>>
EncodedSize(img, dims, q) ==
    IF dims # FileDims[img.f] THEN 1
    ELSE IF q >= Bloat[img.f] THEN FileSize[img.f] + 1
    ELSE FileSize[img.f] - 1

(* ---------------------------- program constants ------------------------ *)

testQualities == <<99, 98, 97, 96, 95, 94, 93, 92, 91, 90, 88, 85, 80, 75, 70>>
SizeLimit == 10

(* ---------------------------- values ----------------------------------- *)

\* a File / Image object: obj is its identity (the n-th file selected), f its
\* content
NoFile == [obj |-> 0, f |-> 0]
NoDims == <<0, 0>>
\* a Blob: kind "file" is the File object src itself, kind "jpeg" a fresh
\* encoder output of image src at quality q and size dims.  target is the
\* target size computed by the run of compressImage that handed the blob to
\* processFinalBlob
NoBlob ==
    [kind |-> "none", src |-> NoFile, q |-> 0, dims |-> NoDims, size |-> 0,
     target |-> NoDims]
FileBlob(file, target) ==
    [kind |-> "file", src |-> file, q |-> 0, dims |-> FileDims[file.f],
     size |-> FileSize[file.f], target |-> target]
JpegBlob(img, q, dims, size) ==
    [kind |-> "jpeg", src |-> img, q |-> q, dims |-> dims, size |-> size,
     target |-> dims]
\* blob === file
SameObject(blob, file) == blob.kind = "file" /\ blob.src.obj = file.obj

Min(a, b) == IF a <= b THEN a ELSE b
Max(a, b) == IF a >= b THEN a ELSE b
Without(seq, i) == SubSeq(seq, 1, i - 1) \o SubSeq(seq, i + 1, Len(seq))

VARIABLES
    originalImage,          \* this.originalImage (NoFile = null)
    originalFile,           \* this.originalFile
    originalSize,           \* this.originalSize
    currentQuality,         \* this.currentQuality
    compressedBlob,         \* this.compressedBlob
    isProcessing,           \* this.isProcessing
    debounceTimer,          \* this.debounceTimer: 0 idle, 1 set in the current
                            \* burst of settings changes, 2 set before it
    dimensionDebounceTimer, \* this.dimensionDebounceTimer, likewise
    qualityDueFirst,        \* both timers are pending and the 200 ms quality
                            \* timer was set before the 300 ms dimension
                            \* timer, hence is due first
    maxWidth, maxHeight,    \* values of the #maxWidth / #maxHeight inputs
    mainContent,            \* #mainContent is displayed (controls reachable)
    deadZone,               \* --deadzone-width and the search that set it
    badge,                  \* bestQualityBadge is displayed
    compressedCanvas,       \* the blob drawn on the compressed preview canvas
    metrics,                \* the blob the metrics panel describes (NoBlob: '-')
    overlay,                \* #heatMapOverlay is displayed
    heatMap,                \* what the heat-map canvas compares
    lastDownload,           \* what the last download click delivered
    tasks,                  \* asynchronous operations in flight, oldest first
    stale,                  \* the stored blob / the drawn preview came from a
                            \* run the settings had changed under, after a
                            \* run started later had stored / drawn its own
    burst,                  \* the current burst of settings changes
    errorMessage,           \* the notice of showError: its text, and whether
                            \* it is displayed
    imageData,              \* originalData and compressedData, the two pixel
                            \* buffers of equal size the metrics and the heat
                            \* map compare, as runs of equal pixel pairs
    psnrValue,              \* what calculatePSNR returned for them
    ssimValue,              \* what calculateSSIM returned for them
    heatMapData,            \* the pixels of the heat map made from them
    objectUrls,             \* the object URLs of processFinalBlob not yet revoked
    files,                  \* file selections so far
    events                  \* user events so far

vars == <<originalImage, originalFile, originalSize, currentQuality, compressedBlob,
          isProcessing, debounceTimer, dimensionDebounceTimer, qualityDueFirst,
          maxWidth, maxHeight,
          mainContent, deadZone, badge, compressedCanvas, metrics, overlay, heatMap,
          lastDownload, tasks, stale, burst, errorMessage, imageData, psnrValue,
          ssimValue, heatMapData, objectUrls, files, events>>

\* the state a handler works on; a handler is a function from state to state
S ==
    [originalImage |-> originalImage, originalFile |-> originalFile,
     originalSize |-> originalSize, currentQuality |-> currentQuality,
     compressedBlob |-> compressedBlob, isProcessing |-> isProcessing,
     debounceTimer |-> debounceTimer,
     dimensionDebounceTimer |-> dimensionDebounceTimer,
     qualityDueFirst |-> qualityDueFirst,
     maxWidth |-> maxWidth, maxHeight |-> maxHeight, mainContent |-> mainContent,
     deadZone |-> deadZone, badge |-> badge, compressedCanvas |-> compressedCanvas,
     metrics |-> metrics, overlay |-> overlay, heatMap |-> heatMap,
     lastDownload |-> lastDownload, tasks |-> tasks, stale |-> stale,
     burst |-> burst, errorMessage |-> errorMessage, imageData |-> imageData,
     psnrValue |-> psnrValue, ssimValue |-> ssimValue,
     heatMapData |-> heatMapData, objectUrls |-> objectUrls, files |-> files,
     events |-> events]

Commit(s) ==
    \E n \in {s} :
        /\ originalImage' = n.originalImage
        /\ originalFile' = n.originalFile
        /\ originalSize' = n.originalSize
        /\ currentQuality' = n.currentQuality
        /\ compressedBlob' = n.compressedBlob
        /\ isProcessing' = n.isProcessing
        /\ debounceTimer' = n.debounceTimer
        /\ dimensionDebounceTimer' = n.dimensionDebounceTimer
        /\ qualityDueFirst' = n.qualityDueFirst
        /\ maxWidth' = n.maxWidth
        /\ maxHeight' = n.maxHeight
        /\ mainContent' = n.mainContent
        /\ deadZone' = n.deadZone
        /\ badge' = n.badge
        /\ compressedCanvas' = n.compressedCanvas
        /\ metrics' = n.metrics
        /\ overlay' = n.overlay
        /\ heatMap' = n.heatMap
        /\ lastDownload' = n.lastDownload
        /\ tasks' = n.tasks
        /\ stale' = n.stale
        /\ burst' = n.burst
        /\ errorMessage' = n.errorMessage
        /\ imageData' = n.imageData
        /\ psnrValue' = n.psnrValue
        /\ ssimValue' = n.ssimValue
        /\ heatMapData' = n.heatMapData
        /\ objectUrls' = n.objectUrls
        /\ files' = n.files
        /\ events' = n.events

NoDeadZone ==
    [width |-> 0, dims |-> NoDims, threshold |-> 101, probes |-> <<>>,
     thrown |-> FALSE]
NoHeatMap == [ref |-> NoFile, cmp |-> NoBlob]
NoDownload == [blob |-> NoBlob, base |-> NoFile, name |-> "none", q |-> 0]
NoBurst == [last |-> "none", runs |-> 0]
NoError == [text |-> "none", shown |-> FALSE]
\* a pair of pixel buffers: runs[k] stands for n consecutive pixels, o in
\* originalData and c in compressedData; a pixel is <<r, g, b, a>>
NoImageData == [width |-> 0, height |-> 0, runs |-> <<>>]
\* a metric not computed yet ('-')
NoValue == [kind |-> "none"]

\* an operation in flight: pc is the callback it waits for
\*   "read"   FileReader.readAsDataURL(file)
\*   "load"   the Image of the data URL of file
\*   "probe"  toBlob of the search canvas (img at dims) at testQualities[idx]
\*   "encode" toBlob of the compression canvas (img at dims) at quality q
\*   "decode" the Image of the object URL of blob
\* cont is the caller a search returns to and burst its timer's burst;
\* file is originalFile when the operation started, isUsingOriginal the local
\* of processFinalBlob; changed: the settings have changed since the run
\* started; superseded / overdrawn: a run started later has stored / drawn
\* its result
Task(pc) ==
    [pc |-> pc, file |-> NoFile, img |-> NoFile, dims |-> NoDims, q |-> 0,
     idx |-> 0, thr |-> 0, probes |-> <<>>, cont |-> "none", burst |-> 0,
     flat |-> FALSE, blob |-> NoBlob, isUsingOriginal |-> FALSE,
     changed |-> FALSE, superseded |-> FALSE, overdrawn |-> FALSE]

IsRun(t) == t.pc \in {"encode", "decode"}

\* the state after construction
InitialState ==
    [originalImage |-> NoFile, originalFile |-> NoFile, originalSize |-> 0,
     currentQuality |-> 100, compressedBlob |-> NoBlob, isProcessing |-> FALSE,
     debounceTimer |-> 0, dimensionDebounceTimer |-> 0,
     qualityDueFirst |-> FALSE, maxWidth |-> 0,
     maxHeight |-> 0, mainContent |-> FALSE, deadZone |-> NoDeadZone,
     badge |-> FALSE, compressedCanvas |-> NoBlob, metrics |-> NoBlob,
     overlay |-> FALSE, heatMap |-> NoHeatMap, lastDownload |-> NoDownload,
     tasks |-> <<>>, stale |-> [blob |-> FALSE, canvas |-> FALSE],
     burst |-> NoBurst, errorMessage |-> NoError, imageData |-> NoImageData,
     psnrValue |-> NoValue, ssimValue |-> NoValue, heatMapData |-> <<>>,
     objectUrls |-> 0, files |-> 0, events |-> 0]

Start(s) ==
    /\ originalImage = s.originalImage
    /\ originalFile = s.originalFile
    /\ originalSize = s.originalSize
    /\ currentQuality = s.currentQuality
    /\ compressedBlob = s.compressedBlob
    /\ isProcessing = s.isProcessing
    /\ debounceTimer = s.debounceTimer
    /\ dimensionDebounceTimer = s.dimensionDebounceTimer
    /\ qualityDueFirst = s.qualityDueFirst
    /\ maxWidth = s.maxWidth
    /\ maxHeight = s.maxHeight
    /\ mainContent = s.mainContent
    /\ deadZone = s.deadZone
    /\ badge = s.badge
    /\ compressedCanvas = s.compressedCanvas
    /\ metrics = s.metrics
    /\ overlay = s.overlay
    /\ heatMap = s.heatMap
    /\ lastDownload = s.lastDownload
    /\ tasks = s.tasks
    /\ stale = s.stale
    /\ burst = s.burst
    /\ errorMessage = s.errorMessage
    /\ imageData = s.imageData
    /\ psnrValue = s.psnrValue
    /\ ssimValue = s.ssimValue
    /\ heatMapData = s.heatMapData
    /\ objectUrls = s.objectUrls
    /\ files = s.files
    /\ events = s.events

Init == Start(InitialState)

(* ---------------------------- pure helpers ------------------------------ *)

\* a call by value: the arguments are evaluated once, before the call
Call1(F(_), a) == CHOOSE r \in {F(x) : x \in {a}} : TRUE
Call2(F(_, _), a, b) == CHOOSE r \in {F(x, y) : x \in {a}, y \in {b}} : TRUE
Call3(F(_, _, _), a, b, c) ==
    CHOOSE r \in {F(x, y, z) : x \in {a}, y \in {b}, z \in {c}} : TRUE
Call4(F(_, _, _, _), a, b, c, d) ==
    CHOOSE r \in {F(x, y, z, w) : x \in {a}, y \in {b}, z \in {c}, w \in {d}} : TRUE

\* a quotient n/d with d >= 0 is the pair <<n, d>>; as in IEEE arithmetic
\* 0/0 is NaN and n/0 is plus or minus Infinity by the sign of n
IsNaN(r) == r[1] = 0 /\ r[2] = 0
IsNegInf(r) == r[1] < 0 /\ r[2] = 0
IsPosInf(r) == r[1] > 0 /\ r[2] = 0
RatLeq(a, b) == a[1] * b[2] <= b[1] * a[2]
RatMin(a, b) == IF RatLeq(a, b) THEN a ELSE b
\* Math.floor(x * n / d) in the place of Math.round
RoundMulDown(x, r) == (x * r[1]) \div r[2]

\* Math.round(x * n / d): the nearest integer, halves upwards
RoundMul(x, r) == (2 * x * r[1] + r[2]) \div (2 * r[2])
\* the value that stands for NaN as a canvas size (a size is never negative)
NaN == 0 - 1

\* parseInt(field) || natural, taking 1 for an empty field
maxInputOrOne(v, natural) == IF v # 0 THEN v ELSE 1

\* parseInt(field) || natural
maxInput(v, natural) == IF v # 0 THEN v ELSE natural

\* Math.min(a, b) without the bound 1
ratioUncapped(a, b) ==
    IF IsNaN(a) \/ IsNaN(b) THEN <<0, 0>>
    ELSE IF IsNegInf(a) \/ IsNegInf(b) THEN <<0 - 1, 0>>
    ELSE IF IsPosInf(a) THEN b
    ELSE IF IsPosInf(b) THEN a
    ELSE RatMin(a, b)

\* Math.min(a, b, 1): NaN if an argument is NaN
ratioOf(a, b) ==
    IF IsNaN(a) \/ IsNaN(b) THEN <<0, 0>>
    ELSE IF IsNegInf(a) \/ IsNegInf(b) THEN <<0 - 1, 0>>
    ELSE RatMin(RatMin(IF IsPosInf(a) THEN <<1, 1>> ELSE a,
                       IF IsPosInf(b) THEN <<1, 1>> ELSE b), <<1, 1>>)

\* Math.max(1, Math.round(x * ratio)): Math.max yields NaN for a NaN
scaled(x, ratio) ==
    IF IsNaN(ratio) THEN NaN
    ELSE IF IsNegInf(ratio) THEN (IF x = 0 THEN NaN ELSE 1)
    ELSE Max(1, RoundMul(x, ratio))

calculateCompressionSize(img, mw, mh) ==
    IF img = NoFile THEN NoDims
    ELSE LET W == FileDims[img.f][1]
             H == FileDims[img.f][2]
             mxW == maxInput(mw, W)
             mxH == maxInput(mh, H)
             ratio == ratioOf(<<mxW, W>>, <<mxH, H>>)
         IN <<scaled(W, ratio), scaled(H, ratio)>>

\* calculateDisplaySize of a decoded image for the 400 by 400 preview
calculateDisplaySize(W, H, mxW, mxH) ==
    IF W = 0 \/ H = 0 THEN NoDims
    ELSE LET ratio == ratioOf(<<mxW, W>>, <<mxH, H>>)
         IN <<scaled(W, ratio), scaled(H, ratio)>>

\* the width without the tested quality itself
deadZoneWidthExclusive(threshold) == IF threshold <= 100 THEN 100 - threshold ELSE 0

\* (100 - threshold) + 1 when the threshold is at most 100, else 0
deadZoneWidth(threshold) == IF threshold <= 100 THEN (100 - threshold) + 1 ELSE 0

Abs(x) == IF x < 0 THEN 0 - x ELSE x

(* ---------------------------- metrics ---------------------------------- *)

\* a number the code writes out
Literal(x) == [kind |-> "literal", value |-> x]
\* 10 * Math.log10(255 ** 2 / mse) where mse is sq / (n * 3); integers are
\* 32 bits wide here, so its comparisons are made by division
Decibel(sq, n) == [kind |-> "decibel", sq |-> sq, n |-> n]
\* 255 ** 2 / mse < 1, that is n * 3 * 65025 < sq
BelowZero(v) == v.kind = "decibel" /\ v.n <= (v.sq - 1) \div 195075
\* 255 ** 2 / mse > 10 ** 10, that is n * 3 * 65025 > sq * 10 ** 10 (both
\* sides divided by 25)
AboveHundred(v) == v.kind = "decibel" /\ (7803 * v.n - 1) \div 400000000 >= v.sq

\* the pixel is left out although its alpha is not zero: the test of SSIM
excludedIfTransparent(o) == o[4] = 0

\* d1[i+3] < 255: the pixel is left out of the error
excluded(o) == o[4] < 255

\* the error of one pixel over R, G and B
squaredError(o, c) ==
    (o[1] - c[1]) * (o[1] - c[1]) + (o[2] - c[2]) * (o[2] - c[2])
        + (o[3] - c[3]) * (o[3] - c[3])

\* the loop of calculatePSNR over the pixels of runs[k..]: <<mse, pixelCount>>
RECURSIVE psnrLoop(_, _, _, _)
psnrLoop(runs, k, mse, pixelCount) ==
    IF k > Len(runs) THEN <<mse, pixelCount>>
    ELSE IF excluded(runs[k].o) THEN psnrLoop(runs, k + 1, mse, pixelCount)
    ELSE psnrLoop(runs, k + 1, mse + runs[k].n * squaredError(runs[k].o, runs[k].c),
                  pixelCount + runs[k].n)


\* mse < 1e-10, that is sq * 10 ** 10 < n * 3
mseNegligible(sq, n) == sq <= ((3 * n - 1) \div 400000000) \div 25

\* Math.max(0, v)
maxZero(v) == IF BelowZero(v) THEN Literal(0) ELSE v

calculatePSNR(data) ==
    LET r == psnrLoop(data.runs, 1, 0, 0)
    IN IF r[2] = 0 THEN Literal(100)
       ELSE IF mseNegligible(r[1], r[2]) THEN Literal(100)
       ELSE maxZero(Decibel(r[1], r[2]))

\* calculateSSIM.  A luminance is counted in thousandths (0.299, 0.587 and
\* 0.114 become 299, 587 and 114), so a product of two luminances is counted
\* in millionths, and every quotient is an exact fraction <<p, q>> with q > 0
\* in lowest terms.
RECURSIVE GCD(_, _)
GCD(a, b) == IF b = 0 THEN a ELSE GCD(b, a % b)
Norm(p, q) ==
    LET g == GCD(IF p < 0 THEN 0 - p ELSE p, q)
    IN IF p < 0 THEN <<0 - ((0 - p) \div g), q \div g>> ELSE <<p \div g, q \div g>>
FAdd(x, y) == Norm(x[1] * y[2] + y[1] * x[2], x[2] * y[2])
FSub(x, y) == Norm(x[1] * y[2] - y[1] * x[2], x[2] * y[2])
FMul(x, y) == Norm(x[1] * y[1], x[2] * y[2])
Sign(x) == IF x < 0 THEN 0 - 1 ELSE IF x > 0 THEN 1 ELSE 0
\* the sign of p/q - r/s for p, r >= 0 and q, s > 0, by continued fractions
RECURSIVE FCompare(_, _, _, _)
FCompare(p, q, r, s) ==
    IF p \div q # r \div s THEN Sign((p \div q) - (r \div s))
    ELSE IF p % q = 0 \/ r % s = 0 THEN Sign((p % q) - (r % s))
    ELSE FCompare(s, r % s, q, p % q)

\* (K1 * L) ** 2 and (K2 * L) ** 2, in millionths
C1 == 6502500
C2 == 58522500
WINDOW_SIZE == 8

\* the signs a rounding residue can have
Residues == {0 - 1, 0, 1}
luminance(p) == 299 * p[1] + 587 * p[2] + 114 * p[3]
\* the pixel pair at offset p of the buffers
RECURSIVE pixelAt(_, _, _)
pixelAt(runs, k, p) ==
    IF p < runs[k].n THEN runs[k] ELSE pixelAt(runs, k + 1, p - runs[k].n)
NoSums == [sumX |-> 0, sumY |-> 0, sumX2 |-> 0, sumY2 |-> 0, sumXY |-> 0,
           numPixels |-> 0, windowHasOpaquePixel |-> FALSE]
\* what one pixel pair adds to the sums of its window
pixelSums(px) ==
    IF px.o[4] = 0 THEN NoSums
    ELSE LET lumX == luminance(px.o)
             lumY == luminance(px.c)
         IN [sumX |-> lumX, sumY |-> lumY, sumX2 |-> lumX * lumX,
             sumY2 |-> lumY * lumY, sumXY |-> lumX * lumY, numPixels |-> 1,
             windowHasOpaquePixel |-> TRUE]
plusSums(a, b) ==
    [sumX |-> a.sumX + b.sumX, sumY |-> a.sumY + b.sumY,
     sumX2 |-> a.sumX2 + b.sumX2, sumY2 |-> a.sumY2 + b.sumY2,
     sumXY |-> a.sumXY + b.sumXY, numPixels |-> a.numPixels + b.numPixels,
     windowHasOpaquePixel |-> a.windowHasOpaquePixel \/ b.windowHasOpaquePixel]
\* the inner loop over i: the sums of row curY of the window at x
RECURSIVE rowLoop(_, _, _, _)
rowLoop(data, x, curY, i) ==
    IF i = WINDOW_SIZE THEN NoSums
    ELSE plusSums(pixelSums(pixelAt(data.runs, 1, curY * data.width + x + i)),
                  rowLoop(data, x, curY, i + 1))
\* the loop over j: the sums of the window at (x, y)
RECURSIVE windowLoop(_, _, _, _)
windowLoop(data, x, y, j) ==
    IF j = WINDOW_SIZE THEN NoSums
    ELSE plusSums(rowLoop(data, x, y + j, 0), windowLoop(data, x, y, j + 1))
\* (sum / numPixels) - (meanA * meanB) in doubles: the exact difference f and,
\* when f is zero, the sign r of what the roundings of the two operands leave.
\* Nothing is left when the means are zero or one pixel was summed: then both
\* operands are the same double.
centred(sum, meanA, meanB, numPixels, e) ==
    LET f == FSub(Norm(sum, numPixels), FMul(meanA, meanB))
    IN [f |-> f,
        r |-> IF f[1] = 0 /\ meanA[1] # 0 /\ meanB[1] # 0 /\ numPixels > 1
              THEN e ELSE 0]
\* Math.max(0, v) of a variance
maxZeroVariance(v) ==
    IF v.f[1] < 0 \/ (v.f[1] = 0 /\ v.r < 0) THEN [f |-> <<0, 1>>, r |-> 0] ELSE v
\* the ssim of one window: the luminance factor and the contrast factor as
\* pairs <<numerator, denominator>> of fractions, and the sign r of the
\* residue of the contrast numerator less that of its denominator
windowSsim(acc, e) ==
    LET n == acc.numPixels
        meanX == Norm(acc.sumX, n)
        meanY == Norm(acc.sumY, n)
        varX == maxZeroVariance(centred(acc.sumX2, meanX, meanX, n, e))
        varY == maxZeroVariance(centred(acc.sumY2, meanY, meanY, n, e))
        covXY == centred(acc.sumXY, meanX, meanY, n, e)
        two == <<2, 1>>
    IN [lum |-> <<FAdd(FMul(two, FMul(meanX, meanY)), <<C1, 1>>),
                  FAdd(FAdd(FMul(meanX, meanX), FMul(meanY, meanY)), <<C1, 1>>)>>,
        con |-> <<FAdd(FMul(two, covXY.f), <<C2, 1>>),
                  FAdd(FAdd(varX.f, varY.f), <<C2, 1>>)>>,
        r |-> Sign(2 * covXY.r - (varX.r + varY.r))]
\* the sign of a window's ssim less one
windowLessOne(w) ==
    LET a == w.lum[1]
        b == w.lum[2]
        c == w.con[1]
        d == w.con[2]
        exact == IF c[1] <= 0 THEN 0 - 1
                 ELSE FCompare(a[1] * b[2], a[2] * b[1], d[1] * c[2], d[2] * c[1])
    IN IF exact # 0 THEN exact ELSE w.r
\* the two outer loops: the ssim of every window that contributes
RECURSIVE ssimLoop(_, _, _, _, _)
ssimLoop(data, x, y, e, windows) ==
    IF y > data.height - WINDOW_SIZE THEN windows
    ELSE IF x > data.width - WINDOW_SIZE
         THEN ssimLoop(data, 0, y + WINDOW_SIZE, e, windows)
    ELSE LET acc == windowLoop(data, x, y, 0)
         IN IF ~acc.windowHasOpaquePixel \/ acc.numPixels = 0
            THEN ssimLoop(data, x + WINDOW_SIZE, y, e, windows)
            ELSE ssimLoop(data, x + WINDOW_SIZE, y, e,
                          Append(windows, windowSsim(acc, e)))
\* the result for an image smaller than a window, were it zero
tooSmallResultZero == Literal(0)
\* the result for an image smaller than a window
tooSmallResult == Literal(1)
\* Math.max(0, Math.min(1, totalSsim / windowCount)): no window's ssim exceeds
\* one but by a residue, so the mean reaches one when every window does
clampedMean(windows) ==
    IF \A k \in DOMAIN windows : windowLessOne(windows[k]) >= 0 THEN Literal(1)
    ELSE IF \A k \in DOMAIN windows : windows[k].con[1][1] <= 0 THEN Literal(0)
    ELSE [kind |-> "mean", windows |-> windows]
calculateSSIM(data, e) ==
    IF data.width < WINDOW_SIZE \/ data.height < WINDOW_SIZE THEN tooSmallResult
    ELSE LET windows == ssimLoop(data, 0, 0, e, <<>>)
         IN IF Len(windows) > 0 THEN clampedMean(windows) ELSE Literal(1)

\* updateHeatMap.  An intensity is counted in 765ths: it is the summed
\* absolute difference of the three channels, over 3 and over 255.
colors == <<<<0, 0, 255>>, <<0, 255, 255>>, <<0, 255, 0>>, <<255, 255, 0>>, <<255, 0, 0>>>>
getHeatMapColor(intensity) ==
    LET clamped == IF intensity < 0 THEN 0 ELSE IF intensity > 765 THEN 765 ELSE intensity
        p == clamped * (Len(colors) - 1)
        i == p \div 765
        j == IF i + 1 < Len(colors) - 1 THEN i + 1 ELSE Len(colors) - 1
        t == p - i * 765
        \* Math.round(a * (1 - t) + b * t)
        mix(a, b) == (2 * (a * (765 - t) + b * t) + 765) \div (2 * 765)
    IN <<mix(colors[i + 1][1], colors[j + 1][1]),
         mix(colors[i + 1][2], colors[j + 1][2]),
         mix(colors[i + 1][3], colors[j + 1][3])>>
\* Math.min(1, diff / 255)
intensityOf(o, c) ==
    LET diff == Abs(o[1] - c[1]) + Abs(o[2] - c[2]) + Abs(o[3] - c[3])
    IN IF diff > 765 THEN 765 ELSE diff
\* the alpha without its floor
alphaOfUnfloored(intensity) == (2 * intensity * 225 + 765) \div (2 * 765)
\* Math.max(30, intensity * 225), stored in a clamped byte array, which
\* rounds to the nearest integer
alphaOf(intensity) ==
    LET stored == (2 * intensity * 225 + 765) \div (2 * 765)
    IN IF intensity * 225 < 30 * 765 THEN 30 ELSE stored
\* the body of the pixel loop: the pixel of the heat map
heatMapPixel(o, c) ==
    IF o[4] < 255 THEN <<0, 0, 0, 0>>
    ELSE LET intensity == intensityOf(o, c)
             rgb == getHeatMapColor(intensity)
         IN <<rgb[1], rgb[2], rgb[3], alphaOf(intensity)>>
\* the pixel loop of updateHeatMap over the two buffers
heatMapLoop(data) ==
    IF data.width = 0 \/ data.height = 0 THEN <<>>
    ELSE [k \in DOMAIN data.runs |->
             [n |-> data.runs[k].n, px |-> heatMapPixel(data.runs[k].o, data.runs[k].c)]]

(* ---------------------------- handlers --------------------------------- *)

\* the notice is displayed with the message; the timer that hides it five
\* seconds later is left out, so a notice stays until hideError
showError(s, message) == [s EXCEPT !.errorMessage = [text |-> message, shown |-> TRUE]]

hideError(s) == [s EXCEPT !.errorMessage.shown = FALSE]

updateHeatMap(s) ==
    IF ~s.overlay \/ s.originalImage = NoFile
    THEN [s EXCEPT !.heatMap = NoHeatMap]
    ELSE [s EXCEPT !.heatMap = [ref |-> s.originalImage, cmp |-> s.compressedCanvas]]

calculateMetrics(s, blob) ==
    IF s.originalImage = NoFile \/ s.originalFile = NoFile
    THEN [s EXCEPT !.metrics = NoBlob]
    ELSE [s EXCEPT !.metrics = blob]

\* processFinalBlob(blob) of the run tasks[i], up to img.src = ...: the blob
\* is stored, the badge set, an object URL is made of the blob and the decode
\* of the URL is in flight
processFinalBlob(s, i, blob) ==
    [s EXCEPT !.compressedBlob = blob,
              !.objectUrls = @ + 1,
              !.badge = SameObject(blob, s.originalFile),
              !.stale.blob = (s.tasks[i].changed /\ s.tasks[i].superseded),
              !.tasks = [j \in DOMAIN s.tasks |->
                            IF j = i
                            THEN [s.tasks[j] EXCEPT
                                    !.pc = "decode", !.blob = blob,
                                    !.isUsingOriginal = SameObject(blob, s.originalFile)]
                            ELSE IF j < i /\ IsRun(s.tasks[j])
                            THEN [s.tasks[j] EXCEPT !.superseded = TRUE]
                            ELSE s.tasks[j]]]

\* the fast path without its check for a resize
isFastPathIgnoringResize(q, dims, img) == q = 100

\* the fast path: quality 100 and no resize
isFastPath(q, dims, img) == q = 100 /\ dims = FileDims[img.f]

\* compressImage, called for a timer of burst b (0: not for a timer)
compressImage(s, b) ==
    IF s.originalImage = NoFile THEN s
    ELSE LET d == calculateCompressionSize(s.originalImage, s.maxWidth, s.maxHeight)
             run == [Task("encode") EXCEPT
                        !.file = s.originalFile,
                        !.img = s.originalImage, !.dims = d, !.q = s.currentQuality,
                        !.flat = (FileType[s.originalFile.f] = <<"image", "png">>)]
             s1 == [s EXCEPT !.isProcessing = TRUE]
             s2 == [s1 EXCEPT !.tasks = Append(@, run),
                              !.burst.runs = IF b = 1 THEN @ + 1 ELSE @]
         IN IF d[1] = 0 \/ d[2] = 0
            THEN showError([s1 EXCEPT !.isProcessing = FALSE], "Compression error")
            ELSE IF isFastPath(s.currentQuality, d, s.originalImage)
            THEN Call3(processFinalBlob, s2, Len(s2.tasks), FileBlob(s.originalFile, d))
            ELSE s2

\* what the caller of updateDeadZoneHighlight does once it has returned
\* (cont "none": the search was called on its own)
resume(s, cont, b) ==
    IF cont = "none" THEN s
    ELSE IF cont = "reset" /\ s.originalImage = NoFile
    THEN [s EXCEPT !.compressedCanvas = NoBlob, !.heatMap = NoHeatMap,
                   !.metrics = NoBlob, !.deadZone = NoDeadZone,
                   !.isProcessing = FALSE]
    ELSE Call2(compressImage, s, b)

\* the guards of findDeadZoneThreshold without the test of the reference size
degenerateIgnoringSize(s, d) ==
    \/ s.originalImage = NoFile
    \/ s.originalFile = NoFile
    \/ d[1] = 0 \/ d[2] = 0

\* the guards of findDeadZoneThreshold: d is the target size
degenerate(s, d) ==
    \/ s.originalImage = NoFile
    \/ s.originalFile = NoFile
    \/ s.originalSize = 0
    \/ d[1] = 0 \/ d[2] = 0

\* findDeadZoneThreshold up to its first probe, with what its caller does
\* with the result when it returns at once: 101 sets the width 0
findDeadZoneThreshold(s, cont, b) ==
    LET d == calculateCompressionSize(s.originalImage, s.maxWidth, s.maxHeight)
    IN IF degenerate(s, d)
       THEN Call3(resume,
                  [s EXCEPT !.deadZone =
                       [width |-> deadZoneWidth(101), dims |-> NoDims,
                        threshold |-> 101, probes |-> <<>>,
                        thrown |-> FALSE]], cont, b)
       ELSE [s EXCEPT !.tasks = Append(@,
               [Task("probe") EXCEPT
                   !.file = s.originalFile,
                   !.img = s.originalImage, !.dims = d, !.idx = 1, !.thr = 101,
                   !.cont = cont, !.burst = b,
                   !.flat = (FileType[s.originalFile.f] = <<"image", "png">>)])]

\* findDeadZoneThreshold throws while it prepares its canvas (getContext
\* yields null, drawImage throws): the catch of updateDeadZoneHighlight sets
\* the width 0 and the caller goes on; no value was returned
searchThrown(s, cont, b) ==
    Call3(resume,
          [s EXCEPT !.deadZone =
               [width |-> 0, dims |-> NoDims, threshold |-> 0, probes |-> <<>>,
                thrown |-> TRUE]],
          cont, b)

\* await updateDeadZoneHighlight() and the caller's continuation: a search
\* that needs no probe returns within the same macrotask
updateDeadZoneHighlight(s, cont, b) ==
    IF s.originalImage = NoFile THEN resume(s, cont, b)
    ELSE findDeadZoneThreshold(s, cont, b)

\* the search step that takes a failed encode for a size above the reference
probeStepFailureExceeds(q, size, ref) ==
    IF size = 0 \/ size > ref THEN <<q, FALSE>> ELSE <<q + 1, TRUE>>

\* the search step that reports the tested quality itself as the threshold
probeStepOffByOne(q, size, ref) ==
    IF size # 0 /\ size > ref THEN <<q, FALSE>> ELSE <<q, TRUE>>

\* the search step that reports 101 when the first candidate does not exceed
probeStepNoDeadZone(q, size, ref) ==
    IF size # 0 /\ size > ref THEN <<q, FALSE>>
    ELSE <<IF q = testQualities[1] THEN 101 ELSE q + 1, TRUE>>

\* the threshold after the probe of quality q: << new threshold, stop? >>
probeStep(q, size, ref) ==
    IF size # 0 /\ size > ref THEN <<q, FALSE>> ELSE <<q + 1, TRUE>>

\* the quality as the fraction handed to the encoder instead of the clamp
clampFraction(t) == Max(1, Min(t, 101)) \div 100

\* Math.max(1, Math.min(thresholdQuality, 101))
clamp(t) == Max(1, Min(t, 101))

\* the probe loop run on the live quality field
probeDoneOnLiveQuality(s, i, size) ==
    LET t == s.tasks[i]
        q == testQualities[t.idx]
        r == probeStep(q, size, s.originalSize)
        probes == Append(t.probes, [q |-> q, size |-> size, ref |-> s.originalSize])
    IN IF ~r[2] /\ t.idx < Len(testQualities)
       THEN [s EXCEPT !.currentQuality = q,
                      !.tasks[i] = [t EXCEPT !.idx = @ + 1, !.thr = r[1], !.probes = probes]]
       ELSE LET threshold == clamp(r[1])
            IN Call3(resume,
                     [s EXCEPT !.currentQuality = q,
                               !.tasks = Without(@, i),
                               !.deadZone =
                                   [width |-> deadZoneWidth(threshold), dims |-> t.dims,
                                    threshold |-> threshold, probes |-> probes,
                                    thrown |-> FALSE]],
                     t.cont, t.burst)

\* one toBlob callback of the search tasks[i]; size 0: no blob, or a throw
probeDone(s, i, size) ==
    LET t == s.tasks[i]
        q == testQualities[t.idx]
        r == probeStep(q, size, s.originalSize)
        probes == Append(t.probes, [q |-> q, size |-> size, ref |-> s.originalSize])
    IN IF ~r[2] /\ t.idx < Len(testQualities)
       THEN [s EXCEPT !.tasks[i] = [t EXCEPT !.idx = @ + 1, !.thr = r[1], !.probes = probes]]
       ELSE LET threshold == clamp(r[1])
            IN Call3(resume,
                     [s EXCEPT !.tasks = Without(@, i),
                               !.deadZone =
                                   [width |-> deadZoneWidth(threshold), dims |-> t.dims,
                                    threshold |-> threshold, probes |-> probes,
                                    thrown |-> FALSE]],
                     t.cont, t.burst)

\* the burst of settings changes is over: its timers and searches no longer
\* count for the current burst
endBurst(s) ==
    [s EXCEPT !.burst = NoBurst,
              !.debounceTimer = IF @ = 0 THEN 0 ELSE 2,
              !.dimensionDebounceTimer = IF @ = 0 THEN 0 ELSE 2,
              !.tasks = [j \in DOMAIN s.tasks |->
                            [s.tasks[j] EXCEPT !.burst = IF @ = 0 THEN 0 ELSE 2]]]

\* a settings change of kind "q" or "d" continues the burst when the timer of
\* the previous change has not expired, and starts a new burst otherwise
settingsChange(s, kind) ==
    LET pending == \/ s.burst.last = "q" /\ s.debounceTimer # 0
                   \/ s.burst.last = "d" /\ s.dimensionDebounceTimer # 0
        s1 == IF pending THEN s ELSE Call1(endBurst, s)
    IN [s1 EXCEPT !.events = @ + 1, !.burst.last = kind,
                  !.tasks = [j \in DOMAIN s1.tasks |->
                                IF IsRun(s1.tasks[j])
                                THEN [s1.tasks[j] EXCEPT !.changed = TRUE]
                                ELSE s1.tasks[j]]]

\* the size test with twice the limit
tooLargeDoubled(c) == FileSize[c] > SizeLimit + SizeLimit

\* file.size > 10 * 1024 * 1024
tooLarge(c) == FileSize[c] > SizeLimit

\* the file passes the validation of handleFileSelect
validFile(c) ==
    /\ c # 0
    /\ FileType[c][1] = "image"
    /\ ~tooLarge(c)

\* handleFileSelect(file), c the content of the file (0: no file)
handleFileSelect(s, c) ==
    LET s0 == [Call1(endBurst, s) EXCEPT !.events = @ + 1, !.files = @ + 1]
        file == [obj |-> s.files + 1, f |-> c]
    IN IF c = 0
       THEN showError(s0, "No file selected")
       ELSE IF FileType[c][1] # "image"
       THEN showError(s0, "Please select a valid image file")
       ELSE IF tooLarge(c)
       THEN showError(s0, "File size must be less than 10MB")
       ELSE hideError([s0 EXCEPT !.originalFile = file, !.originalSize = FileSize[c],
                       !.isProcessing = TRUE,
                       !.tasks = Append(@, [Task("read") EXCEPT !.file = file])])

resetToOriginal(s) ==
    LET s0 == [Call1(endBurst, s) EXCEPT !.events = @ + 1]
    IN IF s.isProcessing THEN s0
       ELSE Call3(updateDeadZoneHighlight,
                [s0 EXCEPT !.isProcessing = TRUE, !.currentQuality = 100,
                           !.maxWidth = 0, !.maxHeight = 0],
                "reset", 0)

toggleHeatMap(s) ==
    LET s0 == [s EXCEPT !.events = @ + 1, !.overlay = ~@]
    IN IF ~s.overlay /\ s.compressedBlob # NoBlob THEN Call1(updateHeatMap, s0) ELSE s0

downloadCompressed(s) ==
    LET s0 == [s EXCEPT !.events = @ + 1]
        deliver(blob, name) ==
            [s0 EXCEPT !.lastDownload =
                [blob |-> blob, base |-> s.originalFile, name |-> name,
                 q |-> IF name = "compressed" THEN s.currentQuality ELSE 0]]
    IN IF s.compressedBlob = NoBlob
       THEN showError(s0, "No compressed image available for download")
       ELSE IF s.originalFile = NoFile
       THEN showError(s0, "Original file information is missing")
       ELSE IF SameObject(s.compressedBlob, s.originalFile)
       THEN deliver(FileBlob(s.originalFile, NoDims), "original")
       ELSE IF s.compressedBlob.size > FileSize[s.originalFile.f] /\ s.currentQuality # 100
       THEN showError(deliver(FileBlob(s.originalFile, NoDims), "original"),
                      "Warning: file is larger than original")
       ELSE deliver(s.compressedBlob, "compressed")

\* img.onload of processFinalBlob for the run tasks[i]; drawn: the preview
\* was drawn, thrown: display or metrics preparation threw
decoded(s, i, drawn, thrown) ==
    LET t == s.tasks[i]
        s1 == [s EXCEPT !.isProcessing = FALSE,
                        !.objectUrls = @ - 1,
                        !.tasks = Without(
                            [j \in DOMAIN s.tasks |->
                                IF drawn /\ j < i /\ IsRun(s.tasks[j])
                                THEN [s.tasks[j] EXCEPT !.overdrawn = TRUE]
                                ELSE s.tasks[j]], i)]
        s2 == IF drawn
              THEN [s1 EXCEPT !.compressedCanvas = t.blob, !.stale.canvas = (t.changed /\ t.overdrawn)]
              ELSE s1
    IN IF thrown
       THEN showError([s2 EXCEPT !.metrics = NoBlob],
                      "Failed to process compressed image data")
       ELSE Call1(updateHeatMap, Call2(calculateMetrics, s2, t.blob))

\* reader.onload of the load tasks[i]: the Image of the data URL starts loading
readerLoaded(s, i) == [s EXCEPT !.tasks[i].pc = "load"]

\* reader.onerror, and img.onerror of handleFileSelect
loadFailed(s, i) ==
    showError([s EXCEPT !.tasks = Without(@, i), !.isProcessing = FALSE],
              IF s.tasks[i].pc = "read" THEN "Failed to read file"
              ELSE "Failed to load image")

\* img.onload of handleFileSelect
imageLoaded(s, i) ==
    Call3(updateDeadZoneHighlight,
        [s EXCEPT !.tasks = Without(@, i), !.originalImage = s.tasks[i].file,
                  !.mainContent = TRUE, !.currentQuality = 100,
                  !.maxWidth = 0, !.maxHeight = 0],
        "file", 0)

\* the failed encode that tells the user nothing
encodeFailedSilently(s, i) == [s EXCEPT !.tasks = Without(@, i), !.isProcessing = FALSE]

\* the failed encode that leaves the processing flag as it is
encodeFailedKeepsFlag(s, i) == [s EXCEPT !.tasks = Without(@, i)]

\* the toBlob callback of compressImage without a blob
encodeFailed(s, i) ==
    showError([s EXCEPT !.tasks = Without(@, i), !.isProcessing = FALSE],
              "Failed to compress image")

\* the toBlob callback of compressImage with a blob
encoded(s, i) ==
    LET t == s.tasks[i]
    IN Call3(processFinalBlob, s, i, JpegBlob(t.img, t.q, t.dims, EncodedSize(t.img, t.dims, t.q)))

\* img.onerror of processFinalBlob; the object URL is left as it is
decodeFailed(s, i) ==
    showError([s EXCEPT !.tasks = Without(@, i), !.isProcessing = FALSE,
                        !.metrics = NoBlob],
              "Failed to display compressed image")

\* 'input' on #qualitySlider with the value q: the quality is stored as it
\* comes and the 200 ms timer is set anew
qualityInput(s, q) ==
    [Call2(settingsChange, s, "q") EXCEPT
        !.currentQuality = q, !.debounceTimer = 1, !.qualityDueFirst = FALSE]

\* the timer of debounceCompression (set in burst b) expires
qualityTimerFired(s, b) ==
    LET s1 == [s EXCEPT !.debounceTimer = 0, !.qualityDueFirst = FALSE]
    IN IF s.originalImage # NoFile /\ ~s.isProcessing THEN Call2(compressImage, s1, b) ELSE s1

\* the timer of debounceRecalculationAndCompression (set in burst b) expires
dimensionTimerFired(s, b) ==
    LET s1 == [s EXCEPT !.dimensionDebounceTimer = 0]
    IN IF s.originalImage # NoFile /\ ~s.isProcessing
       THEN Call3(updateDeadZoneHighlight, s1, "dim", b)
       ELSE s1

(* ---------------------------- actions ---------------------------------- *)

\* a file is dropped or chosen.  showMainContent hides #uploadSection, but a
\* file chooser opened by fileSelectBtn before that delivers its 'change'
\* event whenever the user confirms it, so a selection can arrive at any time
FileSelect(n) ==
    /\ events < n
    /\ files < MaxFiles
    /\ \E c \in FileContents : Commit(Call2(handleFileSelect, S, c))

\* the first file of a session is dropped or chosen
FirstFileSelect ==
    /\ files = 0
    /\ \E c \in FileContents : Commit(Call2(handleFileSelect, S, c))

\* reader.onload: the Image of the data URL starts loading
ReaderLoad ==
    \E i \in DOMAIN tasks :
        /\ tasks[i].pc = "read"
        /\ Commit(Call2(readerLoaded, S, i))

\* reader.onerror
ReaderError ==
    \E i \in DOMAIN tasks :
        /\ tasks[i].pc = "read"
        /\ Commit(Call2(loadFailed, S, i))

\* img.onload of handleFileSelect
ImageLoad ==
    \E i \in DOMAIN tasks :
        /\ tasks[i].pc = "load"
        /\ Commit(Call2(imageLoaded, S, i))

\* img.onerror of handleFileSelect
ImageError ==
    \E i \in DOMAIN tasks :
        /\ tasks[i].pc = "load"
        /\ Commit(Call2(loadFailed, S, i))

\* 'input' on the quality slider
QualityInput(n) ==
    /\ events < n
    /\ mainContent
    /\ \E q \in Qualities \ {currentQuality} : Commit(Call2(qualityInput, S, q))

\* 'input' on #maxWidth or #maxHeight
DimensionInput(n) ==
    /\ events < n
    /\ mainContent
    /\ LET s1 == [Call2(settingsChange, S, "d") EXCEPT
                    !.dimensionDebounceTimer = 1,
                    !.qualityDueFirst = (debounceTimer # 0)]
       IN \/ \E v \in MaxInputs \ {maxWidth} : Commit([s1 EXCEPT !.maxWidth = v])
          \/ \E v \in MaxInputs \ {maxHeight} : Commit([s1 EXCEPT !.maxHeight = v])

\* the 200 ms timer of debounceCompression expires
QualityTimer ==
    /\ debounceTimer # 0
    /\ Commit(Call2(qualityTimerFired, S, debounceTimer))

\* the 300 ms timer of debounceRecalculationAndCompression expires
DimensionTimer ==
    /\ dimensionDebounceTimer # 0
    /\ ~qualityDueFirst
    /\ Commit(Call2(dimensionTimerFired, S, dimensionDebounceTimer))

ResetClick(n) ==
    /\ events < n
    /\ mainContent
    /\ Commit(Call1(resetToOriginal, S))

HeatMapClick(n) ==
    /\ events < n
    /\ mainContent
    /\ Commit(Call1(toggleHeatMap, S))

DownloadClick(n) ==
    /\ events < n
    /\ mainContent
    /\ Commit(Call1(downloadCompressed, S))

\* a toBlob callback of findDeadZoneThreshold, with a blob or without
ProbeCallback ==
    \E i \in DOMAIN tasks :
        /\ tasks[i].pc = "probe"
        /\ \/ Commit(Call3(probeDone, S, i,
                EncodedSize(tasks[i].img, tasks[i].dims, testQualities[tasks[i].idx])))
           \/ Commit(Call3(probeDone, S, i, 0))

\* the toBlob callback of compressImage, without a blob or with one
EncodeCallback ==
    \E i \in DOMAIN tasks :
        /\ tasks[i].pc = "encode"
        /\ \/ Commit(Call2(encodeFailed, S, i))
           \/ Commit(Call2(encoded, S, i))

\* img.onload of processFinalBlob: all of it, or an exception before or after
\* the preview is drawn
DecodeLoad ==
    \E i \in DOMAIN tasks :
        /\ tasks[i].pc = "decode"
        /\ \/ Commit(Call4(decoded, S, i, TRUE, FALSE))
           \/ Commit(Call4(decoded, S, i, FALSE, TRUE))
           \/ Commit(Call4(decoded, S, i, TRUE, TRUE))

\* img.onerror of processFinalBlob
DecodeError ==
    \E i \in DOMAIN tasks :
        /\ tasks[i].pc = "decode"
        /\ Commit(Call2(decodeFailed, S, i))

Next ==
    \/ FileSelect(MaxEvents)
    \/ ReaderLoad
    \/ ReaderError
    \/ ImageLoad
    \/ ImageError
    \/ QualityInput(MaxEvents)
    \/ DimensionInput(MaxEvents)
    \/ QualityTimer
    \/ DimensionTimer
    \/ ResetClick(MaxEvents)
    \/ HeatMapClick(MaxEvents)
    \/ DownloadClick(MaxEvents)
    \/ ProbeCallback
    \/ EncodeCallback
    \/ DecodeLoad
    \/ DecodeError

Spec == Init /\ [][Next]_vars

\* a session with one file in which the user only changes the settings
SessionNext ==
    \/ FirstFileSelect
    \/ ReaderLoad
    \/ ReaderError
    \/ ImageLoad
    \/ ImageError
    \/ QualityInput(MaxSession)
    \/ DimensionInput(MaxSession)
    \/ QualityTimer
    \/ DimensionTimer
    \/ ProbeCallback
    \/ EncodeCallback
    \/ DecodeLoad
    \/ DecodeError

SessionSpec == Init /\ [][SessionNext]_vars

\* every pending timer and browser callback eventually fires
Fairness ==
    /\ WF_vars(ReaderLoad \/ ReaderError)
    /\ WF_vars(ImageLoad \/ ImageError)
    /\ WF_vars(QualityTimer)
    /\ WF_vars(DimensionTimer)
    /\ WF_vars(ProbeCallback)
    /\ WF_vars(EncodeCallback)
    /\ WF_vars(DecodeLoad \/ DecodeError)

\* the program with at most MaxFair user events
FairNext ==
    \/ FileSelect(MaxFair)
    \/ ReaderLoad
    \/ ReaderError
    \/ ImageLoad
    \/ ImageError
    \/ QualityInput(MaxFair)
    \/ DimensionInput(MaxFair)
    \/ QualityTimer
    \/ DimensionTimer
    \/ ResetClick(MaxFair)
    \/ HeatMapClick(MaxFair)
    \/ DownloadClick(MaxFair)
    \/ ProbeCallback
    \/ EncodeCallback
    \/ DecodeLoad
    \/ DecodeError

FairSpec == Init /\ [][FairNext]_vars /\ Fairness

\* the dead-zone search alone, on every encoder: the search of a freshly
\* loaded image is in flight and each probe yields any size, or no blob; the
\* pipeline that follows it takes the fast path (quality 100, no resize)
ProbeSizes == {3, 5}

SearchInit ==
    \E c \in {c \in FileContents : validFile(c)} :
        Start(Call2(imageLoaded, Call2(readerLoaded, Call2(handleFileSelect, InitialState, c), 1), 1))

ProbeAny ==
    \E i \in DOMAIN tasks :
        /\ tasks[i].pc = "probe"
        /\ \E size \in ProbeSizes \cup {0} : Commit(Call3(probeDone, S, i, size))

SearchNext ==
    \/ ProbeAny
    \/ DecodeLoad
    \/ DecodeError

SearchSpec == SearchInit /\ [][SearchNext]_vars

\* findDeadZoneThreshold on every input: an image or none, a file or none,
\* any reference size, and the dead zone a previous search has left
PriorDeadZone ==
    [width |-> 3, dims |-> <<4, 2>>, threshold |-> 98,
     probes |-> <<[q |-> 99, size |-> 4, ref |-> 3], [q |-> 98, size |-> 4, ref |-> 3],
                  [q |-> 97, size |-> 2, ref |-> 3]>>,
     thrown |-> FALSE]

\* the preview of the first file compressed at quality 80
PriorPreview == JpegBlob([obj |-> 1, f |-> 1], 80, <<4, 2>>, 2)

EntryInit ==
    \E c \in {0, 1, 2}, f \in {0, 1, 2}, size \in {0, 3, 4}, mw \in MaxInputs,
       mh \in MaxInputs, dz \in {NoDeadZone, PriorDeadZone},
       pv \in {NoBlob, PriorPreview} :
        /\ pv # NoBlob => c = 1 /\ f = 1
        /\ Start([InitialState EXCEPT
                !.originalImage = IF c = 0 THEN NoFile ELSE [obj |-> 1, f |-> c],
                !.originalFile = IF f = 0 THEN NoFile ELSE [obj |-> 1, f |-> f],
                !.originalSize = size, !.maxWidth = mw, !.maxHeight = mh,
                !.mainContent = (c # 0), !.deadZone = dz, !.files = 1,
                !.compressedBlob = pv, !.compressedCanvas = pv, !.metrics = pv,
                !.currentQuality = IF pv = NoBlob THEN 100 ELSE 80])

\* findDeadZoneThreshold is called
FindCall ==
    /\ events = 0
    /\ Commit([Call3(findDeadZoneThreshold, S, "none", 0) EXCEPT !.events = 1])

\* the search is called and throws before its first probe
FindThrows ==
    /\ events = 0
    /\ ~degenerate(S, calculateCompressionSize(originalImage, maxWidth, maxHeight))
    /\ Commit([Call3(searchThrown, S, "none", 0) EXCEPT !.events = 1])

EntryNext ==
    \/ FindCall
    \/ FindThrows
    \/ ProbeAny

EntrySpec == EntryInit /\ [][EntryNext]_vars

\* the quality control: the first file is loaded and shown as it is, and the
\* slider reports any of SliderValues
LoadedFile == [obj |-> 1, f |-> 1]
SliderInit ==
    Start([InitialState EXCEPT
            !.originalImage = LoadedFile, !.originalFile = LoadedFile,
            !.originalSize = FileSize[1], !.mainContent = TRUE,
            !.deadZone = PriorDeadZone,
            !.compressedBlob = FileBlob(LoadedFile, FileDims[1]),
            !.compressedCanvas = FileBlob(LoadedFile, FileDims[1]),
            !.metrics = FileBlob(LoadedFile, FileDims[1]),
            !.badge = TRUE, !.files = 1])

\* 'input' on #qualitySlider
SliderInput ==
    /\ events < MaxSlider
    /\ \E q \in SliderValues \ {currentQuality} : Commit(Call2(qualityInput, S, q))

SliderNext ==
    \/ SliderInput
    \/ QualityTimer
    \/ EncodeCallback
    \/ DecodeLoad
    \/ DecodeError

SliderSpec == SliderInit /\ [][SliderNext]_vars

\* calculatePSNR on every pair of buffers of Scenes(PsnrSizes, PsnrPixels)
PsnrInit ==
    \E d \in Scenes(PsnrSizes, PsnrPixels) : Start([InitialState EXCEPT !.imageData = d])

\* calculateMetrics calls calculatePSNR(originalData, compressedData)
CalculatePSNR ==
    /\ psnrValue = NoValue
    /\ Commit([S EXCEPT !.psnrValue = Call1(calculatePSNR, imageData)])

PsnrNext == CalculatePSNR

PsnrSpec == PsnrInit /\ [][PsnrNext]_vars

\* the size computation and its callers: an image of any natural size of
\* SizeDims, or none, is loaded, the size fields hold any of SizeMaxInputs,
\* and compressImage or findDeadZoneThreshold is called once
SizeInit ==
    \E c \in SizeContents \cup {0}, mw \in SizeMaxInputs, mh \in SizeMaxInputs,
       q \in Qualities :
        Start([InitialState EXCEPT
                !.originalImage = IF c = 0 THEN NoFile ELSE [obj |-> 1, f |-> c],
                !.originalFile = IF c = 0 THEN NoFile ELSE [obj |-> 1, f |-> c],
                !.originalSize = IF c = 0 THEN 0 ELSE FileSize[c],
                !.maxWidth = mw, !.maxHeight = mh, !.currentQuality = q,
                !.mainContent = (c # 0), !.files = IF c = 0 THEN 0 ELSE 1])

\* compressImage is called
CompressCall ==
    /\ events = 0
    /\ Commit([Call2(compressImage, S, 0) EXCEPT !.events = 1])

SizeNext ==
    \/ CompressCall
    \/ FindCall

SizeSpec == SizeInit /\ [][SizeNext]_vars

\* calculateMetrics, the call of calculateSSIM alone
SsimInit ==
    \E d \in SsimScenes : Start([InitialState EXCEPT !.imageData = d])

CalculateSSIM ==
    /\ ssimValue = NoValue
    /\ \E e \in Residues :
          Commit([S EXCEPT !.ssimValue = Call2(calculateSSIM, imageData, e)])

SsimNext == CalculateSSIM

SsimSpec == SsimInit /\ [][SsimNext]_vars

\* updateHeatMap on the buffers it reads from the two canvases
HeatInit ==
    \E d \in Scenes(HeatSizes, HeatPixels) : Start([InitialState EXCEPT !.imageData = d])

UpdateHeatMap ==
    /\ heatMapData = <<>>
    /\ Commit([S EXCEPT !.heatMapData = Call1(heatMapLoop, imageData)])

HeatNext == UpdateHeatMap

HeatSpec == HeatInit /\ [][HeatNext]_vars

\* the file input: the first file is loaded and shown as it is, or none is,
\* and handleFileSelect is handed any of SelectContents at any time
SelectInit == SliderInit \/ Init

SelectAny ==
    /\ events < MaxSelect
    /\ \E c \in SelectContents : Commit(Call2(handleFileSelect, S, c))

SelectSlider ==
    /\ events < MaxSelect
    /\ mainContent
    /\ \E q \in Qualities \ {currentQuality} : Commit(Call2(qualityInput, S, q))

SelectNext ==
    \/ SelectAny
    \/ SelectSlider
    \/ ReaderLoad
    \/ ReaderError
    \/ ImageLoad
    \/ ImageError
    \/ QualityTimer
    \/ ProbeCallback
    \/ EncodeCallback
    \/ DecodeLoad
    \/ DecodeError

SelectSpec == SelectInit /\ [][SelectNext]_vars

(* ---------------------------- claims ----------------------------------- *)

Runs == {i \in DOMAIN tasks : IsRun(tasks[i])}
Searches == {i \in DOMAIN tasks : tasks[i].pc = "probe"}
Quiescent == tasks = <<>> /\ debounceTimer = 0 /\ dimensionDebounceTimer = 0
\* the blob comes from the file that is now originalFile
FromCurrentFile(blob) == blob = NoBlob \/ blob.src.obj = originalFile.obj
\* the probe p did not exceed the reference size (or yielded no blob)
NotExceeding(p) == p.size = 0 \/ p.size <= p.ref

\* C1: at most one compression pipeline (from the start of compressImage to
\* the load/error callback of processFinalBlob, or the encoder's no-blob
\* callback) is active at any time.
C1_AtMostOnePipeline == Cardinality(Runs) <= 1

\* C2: a dead-zone search and a compression pipeline are never in flight at
\* the same time.
C2_SearchExcludesPipeline == Searches = {} \/ Runs = {}

\* C3: when the settings change while a pipeline is active, the result of
\* that (stale, earlier-started) pipeline is never stored in compressedBlob,
\* nor drawn to the preview, after the result of a pipeline started later.
C3_StaleResultDiscarded == ~stale.blob /\ ~stale.canvas

\* C4: with every pending timer and callback eventually firing, a set
\* processing flag is eventually cleared, on the success path and on every
\* failure path (failed read, failed load, failed encode, failed decode)
C4_FlagEventuallyCleared == isProcessing ~> ~isProcessing

\* a pipeline has run to its end, has displayed its result and has left the
\* flag cleared
C4_Witness == compressedCanvas # NoBlob /\ tasks = <<>> /\ ~isProcessing

\* C5: whenever a compression result is displayed and nothing is in flight,
\* the dead-zone width shown was computed by a search at the target size of
\* the run that produced the displayed result.
C5_DeadZoneMatchesResult ==
    (Quiescent /\ compressedCanvas # NoBlob) => deadZone.dims = compressedCanvas.target

\* C6: for a burst of settings changes, each arriving before the timer of the
\* previous one has expired, at most one pipeline run is started.
C6_OneRunPerBurst == burst.runs <= 1

\* C7: every request that arrives while the processing flag is set - quality
\* or dimension timer expiry, reset click, file selection - is rejected: it
\* starts no search or pipeline and leaves the core state unchanged.
C7_RejectedWhileProcessing ==
    [][(isProcessing /\ (QualityTimer \/ DimensionTimer \/ ResetClick(MaxEvents) \/ FileSelect(MaxEvents)))
        => /\ Len(tasks') = Len(tasks)
           /\ UNCHANGED <<originalImage, originalFile, originalSize, currentQuality,
                          maxWidth, maxHeight, compressedBlob, isProcessing>>]_vars

\* C8: a pipeline takes the fast path exactly when its quality is 100 and its
\* target dimensions are the natural ones, the result then being the
\* original file object itself with is-original true; every other pipeline
\* encodes, and its result is a new blob with is-original false
C8_FastPathExact ==
    \A i \in Runs :
        LET t == tasks[i]
        IN IF t.q = 100 /\ t.dims = FileDims[t.img.f]
           THEN /\ t.pc = "decode"
                /\ SameObject(t.blob, t.file)
                /\ t.isUsingOriginal
           ELSE \/ t.pc = "encode"
                \/ t.blob.kind = "jpeg" /\ ~t.isUsingOriginal

\* a pipeline that encoded at quality 100 because of a resize has displayed
\* its result, and the only pipeline now in flight has taken the fast path
C8_Witness ==
    /\ compressedCanvas.kind = "jpeg"
    /\ compressedCanvas.q = 100
    /\ compressedCanvas.target # FileDims[compressedCanvas.src.f]
    /\ Cardinality(Runs) = 1
    /\ \E i \in Runs : /\ tasks[i].pc = "decode"
                       /\ SameObject(tasks[i].blob, tasks[i].file)
                       /\ compressedBlob = tasks[i].blob
                       /\ badge

\* C9: once a new file has been selected, no download, heat-map toggle,
\* metrics computation or is-original test reads a compressedBlob or preview
\* canvas produced from the previous file.
C9_NoStaleRead ==
    [][/\ DownloadClick(MaxEvents) => FromCurrentFile(compressedBlob)
       /\ (HeatMapClick(MaxEvents) /\ ~overlay /\ compressedBlob # NoBlob)
            => FromCurrentFile(compressedCanvas)
       /\ (EncodeCallback \/ DecodeLoad)
            => \A i \in DOMAIN tasks : Len(tasks') < Len(tasks) \/ tasks'[i] = tasks[i]
                    \/ FromCurrentFile(tasks'[i].blob)]_vars

\* C10: a completed search has probed the candidates in ladder order and has
\* stopped at the first one whose encoding does not exceed the original file:
\* the threshold is that quality plus one and no lower candidate was probed
C10_FirstNonExceeding ==
    LET p == deadZone.probes
    IN \A k \in DOMAIN p :
        /\ p[k].q = testQualities[k]
        /\ NotExceeding(p[k]) => k = Len(p) /\ deadZone.threshold = p[k].q + 1

\* only the candidate 80 does not exceed: threshold 81
C10_Witness ==
    LET p == deadZone.probes
    IN /\ Len(p) = 13
       /\ p[13].q = 80 /\ p[13].size # 0 /\ p[13].size <= p[13].ref
       /\ deadZone.threshold = 81

\* every probe of the completed search exceeded the reference size
AllExceed(p) ==
    /\ Len(p) = Len(testQualities)
    /\ \A k \in DOMAIN p : ~NotExceeding(p[k])

\* C11: when every candidate of the ladder exceeds the reference size, the
\* search returns the lowest tested quality plus one, 71
C11_AllExceedPinned == AllExceed(deadZone.probes) => deadZone.threshold = 71

\* the search has returned or is in flight
Called == events = 1
\* the target size of the current image and inputs
TargetSize == calculateCompressionSize(originalImage, maxWidth, maxHeight)

\* C12: findDeadZoneThreshold called with no image, no file, a reference
\* size of 0 or zero target dimensions returns 101 and performs no encode
C12_DegenerateShortCircuit ==
    (/\ Called
     /\ \/ originalImage = NoFile \/ originalFile = NoFile \/ originalSize = 0
        \/ TargetSize[1] = 0 \/ TargetSize[2] = 0)
    => /\ deadZone.threshold = 101
       /\ deadZone.probes = <<>>
       /\ deadZone.width = 0
       /\ Searches = {}

\* a search on an image and a file with reference size 0 has returned 101
C12_Witness ==
    /\ Called
    /\ originalImage # NoFile /\ originalFile # NoFile /\ originalSize = 0
    /\ deadZone.threshold = 101

\* the search has returned
Returned == Called /\ Searches = {} /\ ~deadZone.thrown

\* C13: the search returns 101, display width 0, if and only if no probed
\* candidate's encoded size exceeds the reference size
C13_NoDeadZoneIffNoneExceeds ==
    Returned =>
        /\ deadZone.threshold = 101
            <=> \A k \in DOMAIN deadZone.probes : NotExceeding(deadZone.probes[k])
        /\ deadZone.width = 0 <=> deadZone.threshold = 101

\* C13, amended: the search returns 101, display width 0, only when no probed
\* candidate exceeds the reference size, namely exactly when it has probed
\* nothing; when it has probed and no candidate exceeds, it returns 100
C13_NoDeadZoneOnlyIfNoneExceeds ==
    Returned =>
        /\ deadZone.threshold = 101 <=> deadZone.probes = <<>>
        /\ deadZone.threshold = 101
            => \A k \in DOMAIN deadZone.probes : NotExceeding(deadZone.probes[k])
        /\ (/\ deadZone.probes # <<>>
            /\ \A k \in DOMAIN deadZone.probes : NotExceeding(deadZone.probes[k]))
            => deadZone.threshold = 100
        /\ deadZone.width = 0 <=> deadZone.threshold = 101

\* the first candidate, 99, was encoded and did not exceed the reference: no
\* probed candidate exceeds, and the search has returned 100, width 1
C13_Witness ==
    /\ Returned
    /\ Len(deadZone.probes) = 1
    /\ deadZone.probes[1].size # 0
    /\ deadZone.probes[1].size <= deadZone.probes[1].ref
    /\ deadZone.threshold = 100
    /\ deadZone.width = 1

\* C14: for every input and every sequence of probe outcomes (exceeds, does
\* not exceed, encode fails) the value the search returns is an integer in
\* [1, 101]
C14_ThresholdInRange == Returned => deadZone.threshold \in 1..101

\* a search whose every probe exceeded has returned the least value it can
C14_Witness ==
    /\ Returned
    /\ AllExceed(deadZone.probes)
    /\ deadZone.threshold = 70

LastProbe == deadZone.probes[Len(deadZone.probes)]

\* C15: a probe whose encode fails (no blob, or a throw) counts as not
\* exceeding the reference: it is the last probe of its search, the search
\* returns that candidate's quality plus one and the width is set from it,
\* and no error notice is shown
C15_FailedProbeEndsSearch ==
    /\ \A i \in Searches : \A k \in DOMAIN tasks[i].probes : tasks[i].probes[k].size # 0
    /\ (Returned /\ deadZone.probes # <<>>) =>
          /\ \A k \in 1..(Len(deadZone.probes) - 1) : deadZone.probes[k].size # 0
          /\ LastProbe.size = 0 =>
                /\ deadZone.threshold = LastProbe.q + 1
                /\ deadZone.width = 100 - LastProbe.q
                /\ errorMessage = NoError

\* a search has ended on a failed encode after two probes that exceeded
C15_Witness ==
    /\ Returned
    /\ Len(deadZone.probes) = 3
    /\ LastProbe.size = 0
    /\ deadZone.threshold = 98
    /\ errorMessage = NoError

\* C16: once updateDeadZoneHighlight has its answer the width is
\* (100 - threshold) + 1 for a threshold of at most 100, and 0 for the
\* threshold 101 and for a search that threw
C16_WidthFromThreshold ==
    (Called /\ Searches = {}) =>
        /\ deadZone.threshold \in 1..100 => deadZone.width = (100 - deadZone.threshold) + 1
        /\ deadZone.threshold = 101 => deadZone.width = 0
        /\ deadZone.thrown => deadZone.width = 0

\* a search has found a dead zone of three qualities
C16_Witness ==
    /\ Returned
    /\ Len(deadZone.probes) = 3
    /\ deadZone.threshold = 98
    /\ deadZone.width = 3

\* C17: no step of a dead-zone search called on its own - its start, a throw,
\* a probe, its return - changes compressedBlob, currentQuality, the
\* compressed preview canvas, the badge or the metrics; of the state only
\* the dead zone (and the search in flight) changes
C17_SearchLeavesPreview ==
    [][UNCHANGED <<compressedBlob, currentQuality, compressedCanvas, badge, metrics,
                   originalImage, originalFile, originalSize, isProcessing,
                   maxWidth, maxHeight, overlay, heatMap, lastDownload,
                   errorMessage>>]_vars

\* a search has run to its end beside a preview compressed at quality 80
C17_Witness ==
    /\ Returned
    /\ Len(deadZone.probes) = 2
    /\ compressedBlob = PriorPreview
    /\ compressedCanvas = PriorPreview
    /\ metrics = PriorPreview
    /\ currentQuality = 80
    /\ ~badge

SourceDims == IF originalImage = NoFile THEN NoDims ELSE FileDims[originalImage.f]
PositiveSource == SourceDims[1] > 0 /\ SourceDims[2] > 0

\* C18: for positive source dimensions and any max-width / max-height input
\* (negative, empty, below, at or above the source) the target size, as
\* computed and as handed to the canvas of a run or search, is at least 1 and
\* at most the source size in each dimension
C18_NeverUpscaled ==
    PositiveSource =>
        /\ TargetSize[1] \in 1..SourceDims[1]
        /\ TargetSize[2] \in 1..SourceDims[2]
        /\ \A i \in DOMAIN tasks : tasks[i].dims = TargetSize

\* a run has started on a 2 by 3 image under a max-width above and a
\* max-height below the source, at the size 1 by 2
C18_Witness ==
    /\ Called
    /\ SourceDims = <<2, 3>>
    /\ maxWidth = 4 /\ maxHeight = 2
    /\ Runs # {}
    /\ \A i \in Runs : tasks[i].dims = <<1, 2>>

\* C19: for positive source dimensions, when max-width and max-height are
\* both empty, or both at least the corresponding source dimension, the
\* target size is the source size
C19_SourceSizeKept ==
    (/\ PositiveSource
     /\ \/ maxWidth = 0 /\ maxHeight = 0
        \/ maxWidth >= SourceDims[1] /\ maxHeight >= SourceDims[2])
    => /\ TargetSize = SourceDims
       /\ \A i \in DOMAIN tasks : tasks[i].dims = SourceDims

\* a search has started at the natural size of a 3 by 2 image whose size
\* fields are empty
C19_Witness ==
    /\ Called
    /\ SourceDims = <<3, 2>>
    /\ maxWidth = 0 /\ maxHeight = 0
    /\ Searches # {}
    /\ \A i \in Searches : tasks[i].dims = <<3, 2>>

\* C20: when the image is missing or a source dimension is zero, the target
\* size is (0,0) and a call of compressImage or findDeadZoneThreshold starts
\* no encode
C20_ZeroSourceNoEncode ==
    (Called /\ (originalImage = NoFile \/ SourceDims[1] = 0 \/ SourceDims[2] = 0)) =>
        /\ TargetSize = NoDims
        /\ Runs = {}
        /\ Searches = {}

\* both size fields hold a positive value below the source dimension
MaxBelowSource ==
    /\ PositiveSource
    /\ maxWidth \in 1..(SourceDims[1] - 1)
    /\ maxHeight \in 1..(SourceDims[2] - 1)
\* Math.min(maxWidth / naturalWidth, maxHeight / naturalHeight, 1) of the state
ScaleFactor == ratioOf(<<maxWidth, SourceDims[1]>>, <<maxHeight, SourceDims[2]>>)
\* out differs from x * ScaleFactor by at most one half
WithinHalf(out, x) ==
    Abs(2 * out * ScaleFactor[2] - 2 * x * ScaleFactor[1]) <= ScaleFactor[2]
\* x * ScaleFactor is below one half
BelowHalf(x) == 2 * x * ScaleFactor[1] < ScaleFactor[2]

\* C21: for positive source dimensions and positive max values below the
\* source, each target dimension differs from the source dimension times the
\* scale factor by at most 0.5
C21_HalfPixel ==
    MaxBelowSource =>
        /\ WithinHalf(TargetSize[1], SourceDims[1])
        /\ WithinHalf(TargetSize[2], SourceDims[2])

\* C21, amended: each target dimension differs from the source dimension
\* times the scale factor by at most 0.5, unless that product is below 0.5:
\* then the dimension is 1; a run or search works at that target size
C21_HalfPixelOrOne ==
    MaxBelowSource =>
        /\ \A k \in {1, 2} :
              IF BelowHalf(SourceDims[k]) THEN TargetSize[k] = 1
              ELSE WithinHalf(TargetSize[k], SourceDims[k])
        /\ \A i \in DOMAIN tasks : tasks[i].dims = TargetSize

\* a run has started on a 2 by 5 image limited to 1 by 1, at 1 by 1: the
\* scale factor is 1/5 and the scaled width 0.4
C21_Witness ==
    /\ Called
    /\ SourceDims = <<2, 5>>
    /\ maxWidth = 1 /\ maxHeight = 1
    /\ BelowHalf(SourceDims[1])
    /\ Runs # {}
    /\ \A i \in Runs : tasks[i].dims = <<1, 1>>

\* the image formats with an alpha channel among those a browser decodes
SupportsAlpha(type) ==
    type[1] = "image" /\ type[2] \in {"png", "webp", "gif", "avif", "svg+xml"}

\* C22: every canvas prepared for an encode, by compressImage or by a
\* dead-zone search, of a file whose format supports alpha is filled with
\* white before the image is drawn
C22_AlphaFlattened ==
    \A i \in DOMAIN tasks :
        (tasks[i].pc \in {"encode", "probe"} /\ SupportsAlpha(FileType[tasks[i].file.f]))
            => tasks[i].flat

\* C23: every encode compressImage starts has an integer quality of 1 to 100
C23_EncodeQualityInRange ==
    \A i \in DOMAIN tasks : tasks[i].pc = "encode" => tasks[i].q \in 1..100

\* the step is the toBlob callback of the run tasks[i] without a blob
FailedEncode(i) == tasks[i].pc = "encode" /\ tasks' = Without(tasks, i)
\* nothing is in flight and no timer is pending
Idle == tasks = <<>> /\ debounceTimer = 0 /\ dimensionDebounceTimer = 0

\* C24: the callback of an encode that produced no blob ends its run: it
\* shows the error notice, clears the processing flag, leaves compressedBlob,
\* the preview, the badge and the metrics as they are and starts nothing;
\* and once nothing is in flight and no timer is pending, only a user event
\* starts anything again
C24_FailedEncodeTerminal ==
    [][/\ \A i \in DOMAIN tasks :
            FailedEncode(i) =>
                /\ errorMessage' = [text |-> "Failed to compress image", shown |-> TRUE]
                /\ ~isProcessing'
                /\ UNCHANGED <<compressedBlob, compressedCanvas, badge, metrics,
                               heatMap, currentQuality, debounceTimer,
                               dimensionDebounceTimer>>
       /\ Idle => events' = events + 1]_vars

\* an encode at quality 80 has failed: the notice is shown, the flag is clear,
\* nothing is in flight, and the preview is still the original file
C24_Witness ==
    /\ errorMessage = [text |-> "Failed to compress image", shown |-> TRUE]
    /\ ~isProcessing
    /\ Idle
    /\ currentQuality = 80
    /\ compressedBlob # NoBlob
    /\ SameObject(compressedBlob, originalFile)
    /\ compressedCanvas = compressedBlob

\* C25: whatever the two buffers hold, calculatePSNR returns a value from 0
\* to 100
C25_PsnrInRange ==
    psnrValue # NoValue =>
        /\ psnrValue.kind = "literal" => psnrValue.value \in 0..100
        /\ ~BelowZero(psnrValue)
        /\ ~AboveHundred(psnrValue)

\* every pixel of originalData is fully opaque and equal in compressedData
SameOpaque ==
    \A k \in DOMAIN imageData.runs :
        imageData.runs[k].o[4] = 255 /\ imageData.runs[k].c = imageData.runs[k].o
\* no pixel of originalData is fully opaque
NoneOpaque == \A k \in DOMAIN imageData.runs : imageData.runs[k].o[4] < 255

\* C26: calculatePSNR returns exactly 100 for a fully opaque buffer compared
\* with itself, and whenever every pixel of the reference has an alpha below
\* 255, whatever the compared buffer holds
C26_PsnrCeiling ==
    (psnrValue # NoValue /\ (SameOpaque \/ NoneOpaque)) => psnrValue = Literal(100)

\* a 300 by 200 reference without an opaque pixel has been compared with a
\* buffer that differs from it in every pixel, and the result is 100
C26_Witness ==
    /\ psnrValue = Literal(100)
    /\ imageData.width = 300
    /\ NoneOpaque
    /\ \A k \in DOMAIN imageData.runs :
          squaredError(imageData.runs[k].o, imageData.runs[k].c) > 0

\* the compared buffers hold an opaque pixel each and differ in every pixel
OpaqueAndDifferent ==
    \A k \in DOMAIN imageData.runs :
        /\ imageData.runs[k].o[4] = 255
        /\ ~SameColour(imageData.runs[k].o, imageData.runs[k].c)

\* C27: calculateSSIM returns exactly 1 for buffers of width at most 8 and
\* height at most 8, those of exactly 8 by 8 among them
C27_UpToWindowIsOne ==
    (ssimValue # NoValue /\ imageData.width <= WINDOW_SIZE
                         /\ imageData.height <= WINDOW_SIZE)
        => ssimValue = Literal(1)

\* C27 as amended: calculateSSIM returns exactly 1 for buffers of width at
\* most 8 and height at most 8 other than those of exactly 8 by 8
C27_BelowWindowIsOne ==
    (/\ ssimValue # NoValue
     /\ imageData.width <= WINDOW_SIZE /\ imageData.height <= WINDOW_SIZE
     /\ ~(imageData.width = WINDOW_SIZE /\ imageData.height = WINDOW_SIZE))
        => ssimValue = Literal(1)

\* two 7 by 8 buffers that differ in every pixel have been compared
C27_Witness ==
    /\ ssimValue = Literal(1)
    /\ imageData.width = 7 /\ imageData.height = 8
    /\ OpaqueAndDifferent

\* the compared buffers are the same buffer
SameBuffer == \A k \in DOMAIN imageData.runs : imageData.runs[k].c = imageData.runs[k].o
\* a window that lies within the bounds holds an opaque pixel
OpaqueWindow ==
    /\ imageData.width >= WINDOW_SIZE /\ imageData.height >= WINDOW_SIZE
    /\ \E k \in DOMAIN imageData.runs : imageData.runs[k].o[4] = 255

\* C28: calculateSSIM of a buffer and itself is 1 when a window of 8 by 8
\* within its bounds holds opaque pixels
C28_SelfSimilarityIsOne ==
    (ssimValue # NoValue /\ SameBuffer /\ OpaqueWindow) => ssimValue = Literal(1)

\* the pixel of the ramp's first stop at the floor alpha
FloorBlue == <<0, 0, 255, 30>>

\* C29: the heat map of two identical buffers has alpha 30 and the colour
\* blue (0, 0, 255) in every pixel
C29_IdenticalAllBlue ==
    (heatMapData # <<>> /\ SameBuffer) =>
        \A k \in DOMAIN heatMapData : heatMapData[k].px = FloorBlue

\* C29 as amended: the heat map of two identical buffers has alpha 30 and the
\* colour blue (0, 0, 255) in every pixel whose reference pixel is fully opaque
C29_IdenticalOpaqueBlue ==
    (heatMapData # <<>> /\ SameBuffer) =>
        \A k \in DOMAIN heatMapData :
            imageData.runs[k].o[4] = 255 => heatMapData[k].px = FloorBlue

\* the heat map of a 400 by 300 buffer of opaque white and itself has been drawn
C29_Witness ==
    /\ heatMapData # <<>>
    /\ SameBuffer
    /\ imageData.width = 400
    /\ \A k \in DOMAIN imageData.runs : imageData.runs[k].o = <<255, 255, 255, 255>>
    /\ \A k \in DOMAIN heatMapData : heatMapData[k].px = FloorBlue

\* C30: every object URL made by processFinalBlob is revoked when the run
\* ends, by a load, by an exception while handling the load or by a load
\* error: no object URL is live while nothing is in flight or pending
C30_NoLiveUrlWhenIdle == Idle => objectUrls = 0

\* what handleFileSelect is to reject: no file, a type that does not start
\* with image/, more than 10 MiB
Rejected(c) == c = 0 \/ FileType[c][1] # "image" \/ FileSize[c] > 10
\* the step is handleFileSelect handed the content c
Selects(c) == Commit(Call2(handleFileSelect, S, c))

\* C31: handleFileSelect handed no file, a file that is not an image or a file
\* above 10 MiB shows an error, starts no search and no pipeline, and leaves
\* originalFile, originalSize, originalImage, compressedBlob and the
\* processing flag as they are
C31_InvalidFileRejected ==
    [][\A c \in SelectContents :
          (Rejected(c) /\ Selects(c)) =>
              /\ errorMessage'.shown
              /\ errorMessage'.text # "none"
              /\ tasks' = tasks
              /\ UNCHANGED <<originalFile, originalSize, originalImage,
                             compressedBlob, isProcessing>>]_vars

\* an image above the limit has been handed over while the pipeline of a
\* loaded image was in flight: the notice is shown and the run goes on
C31_Witness ==
    /\ errorMessage = [text |-> "File size must be less than 10MB", shown |-> TRUE]
    /\ originalFile = LoadedFile
    /\ originalImage = LoadedFile
    /\ isProcessing
    /\ Runs # {}

\* C32: at most one dead-zone search (from the call of findDeadZoneThreshold
\* to the callback of its last probe) is in flight at any time of a session
\* with one image
C32_AtMostOneSearch == Cardinality(Searches) <= 1

\* C33: when a search that has probed returns the threshold Q, every probed
\* candidate of quality Q or more was encoded to more bytes than the reference
\* size, and every probed candidate below Q was not (or was not encoded)
C33_ThresholdSeparates ==
    (Returned /\ deadZone.probes # <<>>) =>
        \A k \in DOMAIN deadZone.probes :
            LET p == deadZone.probes[k]
            IN /\ p.q >= deadZone.threshold => (p.size # 0 /\ p.size > p.ref)
               /\ p.q < deadZone.threshold => (p.size = 0 \/ p.size <= p.ref)

\* a search has returned 98: the candidate 99 exceeded the reference and the
\* candidate 97 was encoded and did not; 98 exceeded as well
C33_Witness ==
    /\ Returned
    /\ Len(deadZone.probes) = 3
    /\ deadZone.threshold = 98
    /\ deadZone.probes[1].size > deadZone.probes[1].ref
    /\ deadZone.probes[2].size > deadZone.probes[2].ref
    /\ deadZone.probes[3].size # 0
    /\ deadZone.probes[3].size <= deadZone.probes[3].ref
    /\ deadZone # PriorDeadZone

(* ------------------ the older revision (lines 790 on) ------------------- *)

\* compressImage of the older revision without its test of the flag
compressImageOlderUnguarded(s) ==
    IF s.originalImage = NoFile THEN s ELSE Call2(compressImage, s, 0)

\* compressImage of the older revision: it returns at once while the flag is
\* set; from there on it is the compressImage of the current revision
compressImageOlder(s) ==
    IF s.isProcessing \/ s.originalImage = NoFile THEN s
    ELSE Call2(compressImage, s, 0)

\* what the caller of the older updateDeadZoneHighlight does once it has
\* returned: img.onload ("file") and resetToOriginal ("reset") compress, the
\* dimension listener ("dim") had not awaited it
resumeOlder(s, cont) ==
    IF cont = "file" THEN Call1(compressImageOlder, s)
    ELSE IF cont = "reset"
    THEN IF s.originalImage # NoFile THEN Call1(compressImageOlder, s)
         ELSE [s EXCEPT !.compressedCanvas = NoBlob, !.heatMap = NoHeatMap,
                        !.metrics = NoBlob, !.deadZone = NoDeadZone]
    ELSE s

\* updateDeadZoneHighlight of the older revision up to the first probe of its
\* search: it returns at once while the flag is set, and sets the flag for
\* the time of the search
updateDeadZoneHighlightOlder(s, cont) ==
    IF s.isProcessing \/ s.originalImage = NoFile THEN Call2(resumeOlder, s, cont)
    ELSE LET d == calculateCompressionSize(s.originalImage, s.maxWidth, s.maxHeight)
         IN IF degenerate(s, d)
            THEN Call2(resumeOlder,
                       [s EXCEPT !.deadZone =
                            [width |-> deadZoneWidth(101), dims |-> NoDims,
                             threshold |-> 101, probes |-> <<>>, thrown |-> FALSE]],
                       cont)
            ELSE [s EXCEPT !.isProcessing = TRUE,
                           !.tasks = Append(@,
                              [Task("probe") EXCEPT
                                  !.file = s.originalFile, !.img = s.originalImage,
                                  !.dims = d, !.idx = 1, !.thr = 101, !.cont = cont,
                                  !.flat = (FileType[s.originalFile.f] = <<"image", "png">>)])]

\* one toBlob callback of the search tasks[i] of the older revision; when the
\* search returns, the finally of updateDeadZoneHighlight clears the flag and
\* the caller goes on
probeDoneOlder(s, i, size) ==
    LET t == s.tasks[i]
        q == testQualities[t.idx]
        r == probeStep(q, size, s.originalSize)
        probes == Append(t.probes, [q |-> q, size |-> size, ref |-> s.originalSize])
    IN IF ~r[2] /\ t.idx < Len(testQualities)
       THEN [s EXCEPT !.tasks[i] = [t EXCEPT !.idx = @ + 1, !.thr = r[1], !.probes = probes]]
       ELSE LET threshold == clamp(r[1])
            IN Call2(resumeOlder,
                     [s EXCEPT !.tasks = Without(@, i),
                               !.isProcessing = FALSE,
                               !.deadZone =
                                   [width |-> deadZoneWidth(threshold), dims |-> t.dims,
                                    threshold |-> threshold, probes |-> probes,
                                    thrown |-> FALSE]],
                     t.cont)

\* 'input' on #maxWidth or #maxHeight in the older revision, the element
\* holding its new value: the 200 ms timer is set anew and the search is
\* called without being awaited
dimensionInputOlder(s) ==
    Call2(updateDeadZoneHighlightOlder, [s EXCEPT !.debounceTimer = 1], "dim")

\* the timer of the older debounceCompression expires
qualityTimerFiredOlder(s) ==
    LET s1 == [s EXCEPT !.debounceTimer = 0]
    IN IF s.originalImage # NoFile THEN Call1(compressImageOlder, s1) ELSE s1

\* handleFileSelect of the older revision: the flag is left as it is
handleFileSelectOlder(s, c) ==
    LET s0 == [Call1(endBurst, s) EXCEPT !.events = @ + 1, !.files = @ + 1]
        file == [obj |-> s.files + 1, f |-> c]
    IN IF c = 0
       THEN showError(s0, "No file selected")
       ELSE IF FileType[c][1] # "image"
       THEN showError(s0, "Please select a valid image file")
       ELSE IF tooLarge(c)
       THEN showError(s0, "File size must be less than 10MB")
       ELSE hideError([s0 EXCEPT !.originalFile = file, !.originalSize = FileSize[c],
                       !.tasks = Append(@, [Task("read") EXCEPT !.file = file])])

\* img.onload of the older handleFileSelect
imageLoadedOlder(s, i) ==
    Call2(updateDeadZoneHighlightOlder,
        [s EXCEPT !.tasks = Without(@, i), !.originalImage = s.tasks[i].file,
                  !.mainContent = TRUE, !.currentQuality = 100,
                  !.maxWidth = 0, !.maxHeight = 0],
        "file")

\* reader.onerror and img.onerror of the older handleFileSelect
loadFailedOlder(s, i) ==
    showError([s EXCEPT !.tasks = Without(@, i)],
              IF s.tasks[i].pc = "read" THEN "Failed to read file"
              ELSE "Failed to load image")

\* resetToOriginal of the older revision
resetToOriginalOlder(s) ==
    Call2(updateDeadZoneHighlightOlder,
        [Call1(endBurst, s) EXCEPT !.events = @ + 1, !.currentQuality = 100,
                                   !.maxWidth = 0, !.maxHeight = 0],
        "reset")

\* img.onload of the older processFinalBlob for the run tasks[i]; thrown: the
\* computation of the metrics threw after the preview was drawn, and the
\* statements after it, which clear the flag, were not reached
decodedOlder(s, i, thrown) ==
    LET t == s.tasks[i]
        s1 == [s EXCEPT !.tasks = Without(@, i), !.compressedCanvas = t.blob]
    IN IF thrown THEN s1
       ELSE [Call1(updateHeatMap, Call2(calculateMetrics, s1, t.blob)) EXCEPT
                !.objectUrls = @ - 1, !.isProcessing = FALSE]

OlderFileSelect ==
    /\ events < MaxOlder
    /\ files < MaxFiles
    /\ \E c \in FileContents : Commit(Call2(handleFileSelectOlder, S, c))

OlderReaderError ==
    \E i \in DOMAIN tasks :
        /\ tasks[i].pc = "read"
        /\ Commit(Call2(loadFailedOlder, S, i))

OlderImageLoad ==
    \E i \in DOMAIN tasks :
        /\ tasks[i].pc = "load"
        /\ Commit(Call2(imageLoadedOlder, S, i))

OlderImageError ==
    \E i \in DOMAIN tasks :
        /\ tasks[i].pc = "load"
        /\ Commit(Call2(loadFailedOlder, S, i))

OlderDimensionInput ==
    /\ events < MaxOlder
    /\ mainContent
    /\ LET s1 == Call2(settingsChange, S, "d")
       IN \/ \E v \in MaxInputs \ {maxWidth} :
                Commit(Call1(dimensionInputOlder, [s1 EXCEPT !.maxWidth = v]))
          \/ \E v \in MaxInputs \ {maxHeight} :
                Commit(Call1(dimensionInputOlder, [s1 EXCEPT !.maxHeight = v]))

OlderQualityTimer ==
    /\ debounceTimer # 0
    /\ Commit(Call1(qualityTimerFiredOlder, S))

OlderResetClick ==
    /\ events < MaxOlder
    /\ mainContent
    /\ Commit(Call1(resetToOriginalOlder, S))

OlderProbeCallback ==
    \E i \in DOMAIN tasks :
        /\ tasks[i].pc = "probe"
        /\ \/ Commit(Call3(probeDoneOlder, S, i,
                EncodedSize(tasks[i].img, tasks[i].dims, testQualities[tasks[i].idx])))
           \/ Commit(Call3(probeDoneOlder, S, i, 0))

OlderDecodeLoad ==
    \E i \in DOMAIN tasks :
        /\ tasks[i].pc = "decode"
        /\ \/ Commit(Call3(decodedOlder, S, i, FALSE))
           \/ Commit(Call3(decodedOlder, S, i, TRUE))

OlderNext ==
    \/ OlderFileSelect
    \/ ReaderLoad
    \/ OlderReaderError
    \/ OlderImageLoad
    \/ OlderImageError
    \/ QualityInput(MaxOlder)
    \/ OlderDimensionInput
    \/ OlderQualityTimer
    \/ OlderResetClick
    \/ OlderProbeCallback
    \/ EncodeCallback
    \/ OlderDecodeLoad
    \/ DecodeError

OlderSpec == Init /\ [][OlderNext]_vars

\* C34: in the older revision a search of the dead zone and a compression
\* pipeline are never in flight at the same time
C34_SearchExcludesPipeline == ~(Searches # {} /\ Runs # {})

\* a dimension input has started a search, and its 200 ms timer has expired
\* while the search was in flight: the compression was turned away
C34_Witness ==
    /\ \E i \in Searches : tasks[i].cont = "dim" /\ tasks[i].idx > 1
    /\ burst.last = "d"
    /\ debounceTimer = 0
    /\ isProcessing
    /\ Runs = {}

\* the summed absolute difference of the three colour channels of pixel k:
\* three times the mean difference, 765 times the intensity
ChannelDiff(k) ==
    LET o == imageData.runs[k].o
        c == imageData.runs[k].c
    IN Abs(o[1] - c[1]) + Abs(o[2] - c[2]) + Abs(o[3] - c[3])

\* C35: a pixel of the heat map is (0, 0, 0, 0) exactly when the alpha of the
\* reference pixel is below 255; otherwise its alpha is max(30, intensity *
\* 225) as the byte array stores it (to the nearest integer), lies in 30..225
\* and does not decrease as the mean absolute difference grows
C35_HeatMapAlpha ==
    heatMapData # <<>> =>
        \A k \in DOMAIN heatMapData :
            LET o == imageData.runs[k].o
                px == heatMapData[k].px
            IN /\ (px = <<0, 0, 0, 0>>) <=> (o[4] < 255)
               /\ o[4] = 255 =>
                    /\ px[4] \in 30..225
                    /\ Abs(765 * px[4] - Max(30 * 765, ChannelDiff(k) * 225)) * 2 <= 765
                    /\ \A j \in DOMAIN heatMapData :
                          (imageData.runs[j].o[4] = 255 /\ ChannelDiff(j) <= ChannelDiff(k))
                              => heatMapData[j].px[4] <= px[4]

\* a heat map with a transparent reference pixel and an opaque pixel that
\* differs in every channel by 100 (alpha 88 for 88.2) has been drawn
C35_Witness ==
    /\ heatMapData # <<>>
    /\ \E j, k \in DOMAIN heatMapData :
          /\ imageData.runs[j].o[4] < 255 /\ heatMapData[j].px = <<0, 0, 0, 0>>
          /\ imageData.runs[k].o[4] = 255 /\ ChannelDiff(k) = 300
          /\ heatMapData[k].px[4] = 88

\* the quality a displayed blob was produced at: the file itself stands for
\* the quality 100 of the fast path
ProducedQuality(blob) == IF blob.kind = "file" THEN 100 ELSE blob.q

\* C36: once every timer and callback has fired and no operation has failed,
\* the displayed result was produced at the current quality and for the
\* target size of the current inputs: no settings change is lost for having
\* arrived while an operation was in flight
C36_SettingsNotLost ==
    (Quiescent /\ compressedCanvas # NoBlob /\ ~errorMessage.shown) =>
        /\ ProducedQuality(compressedCanvas) = currentQuality
        /\ compressedCanvas.target = TargetSize

\* the operations in flight that have set the processing flag: a file load
\* (its read, its load and the search that follows), a reset (its search) and
\* a pipeline
FlagSetters ==
    {i \in DOMAIN tasks :
        \/ tasks[i].pc \in {"read", "load", "encode", "decode"}
        \/ tasks[i].pc = "probe" /\ tasks[i].cont \in {"file", "reset"}}

\* C37: the processing flag is set whenever a file load, a reset or a pipeline
\* is in flight: the completion of one operation never clears the flag while
\* another operation that set it is still running
C37_FlagCoversOperations == FlagSetters # {} => isProcessing

\* the probes were all compared against the size of the file of image img
SameReference(probes, img) ==
    \A k \in DOMAIN probes : probes[k].ref = FileSize[img.f]

\* C38: a search or a pipeline reads originalImage, originalFile and
\* originalSize of one and the same file: the image it draws is the image of
\* the file it reads, and every probe of a search is compared against the
\* size of that file, also when a file is selected in the meantime
C38_OneFilePerOperation ==
    /\ \A i \in DOMAIN tasks :
          tasks[i].pc \in {"probe", "encode"} =>
              /\ tasks[i].file.obj = tasks[i].img.obj
              /\ SameReference(tasks[i].probes, tasks[i].img)
    /\ \A j, k \in DOMAIN deadZone.probes :
          deadZone.probes[j].ref = deadZone.probes[k].ref

\* the download: the first file is loaded and shown as it is, the user moves
\* the slider and clicks the download button
DownloadNext ==
    \/ QualityInput(MaxDownload)
    \/ DownloadClick(MaxDownload)
    \/ QualityTimer
    \/ EncodeCallback
    \/ DecodeLoad
    \/ DecodeError

DownloadSpec == SliderInit /\ [][DownloadNext]_vars

\* C39: a download that delivers the re-encoded blob under the name
\* <base>_compressed_q<N>.jpg names the quality N the blob was encoded at
C39_NameStatesQuality ==
    lastDownload.name = "compressed" => lastDownload.q = lastDownload.blob.q

\* the search of an accepted reset is in flight
ResetSearch(ts) == \E i \in DOMAIN ts : ts[i].pc = "probe" /\ ts[i].cont = "reset"
\* the step is the return of the search of a reset, with the compressImage
\* that resetToOriginal calls next
ResetResumes == ResetSearch(tasks) /\ ~ResetSearch(tasks')

\* C40: when the search of an accepted reset has returned and resetToOriginal
\* has compressed, the quality is 100, the size constraints are empty and
\* the blob of the preview is the original file itself, with the badge
\* shown, whatever slider or dimension input arrived during the reset
C40_ResetRestoresOriginal ==
    [][ResetResumes =>
          /\ currentQuality' = 100
          /\ maxWidth' = 0 /\ maxHeight' = 0
          /\ SameObject(compressedBlob', originalFile')
          /\ badge']_vars

====
